---- MODULE Spec2Model ----
(***************************************************************************)
(* Scoring and inference engine of the procurement risk monitor:           *)
(*   detect_clear_errors, _generate_action_checklist,                      *)
(*   _find_comparable_procurements, _compute_sector_benchmarks (app.py)    *)
(*   and compute_quality_assessment (scripts/pdf_report.py).               *)
(*                                                                         *)
(* Conventions.                                                            *)
(*  - An optional number of a record (JSON null, pandas NaN, a number) is  *)
(*    a tagged value: None, NaN or Num(n).                                 *)
(*  - Money is in whole euros.  Evaluation weights are in hundredths       *)
(*    (weight 0.4 is 40, weight 40.0 is 4000); rates are in percent.       *)
(*  - A python dict is a function whose DOMAIN is its key set.             *)
(*  - A title is a sequence of one-character strings.                      *)
(***************************************************************************)
EXTENDS Integers, Sequences, FiniteSets, TLC

VARIABLES
    lang,            \* st.session_state["lang"]
    row,             \* the DataFrame row detect_clear_errors evaluates
    buyer_profiles,  \* buyer name -> profile
    titles_data,     \* rhr_id -> [title, buyer]
    flags,           \* findings of the latest detect_clear_errors run
    first_flags,     \* findings of the first run on these inputs
    runs,            \* number of detect_clear_errors runs so far
    qa_in,           \* arguments of compute_quality_assessment
    qa,              \* its result
    cl_in,           \* arguments of _generate_action_checklist
    checklist,       \* its result
    features_dict,   \* the corpus: sequence of records in dict order
    dispute_ids,     \* ids of the dispute ledger
    query,           \* arguments of the corpus scan that ran
    comp_df,         \* result of _find_comparable_procurements
    benchmarks,      \* result of _compute_sector_benchmarks
    attr_in,         \* model data and feature vector of the feature attribution
    contribs,        \* its result: contrib_df, or the exception raised
    weights,         \* a (price weight, quality weight) pair given to the price-only tests
    price_only,      \* the outcome of each price-only test evaluated on it
    page,            \* the deep dive page run: its inputs, what it has rendered, what failed
    pc               \* the operation that ran last ("init" before any)

vars == <<lang, row, buyer_profiles, titles_data, flags, first_flags, runs,
          qa_in, qa, cl_in, checklist,
          features_dict, dispute_ids, query, comp_df, benchmarks,
          attr_in, contribs, weights, price_only, page, pc>>

complianceVars == <<lang, row, buyer_profiles, titles_data, flags, first_flags, runs>>
qualityVars    == <<qa_in, qa>>
checklistVars  == <<cl_in, checklist>>
corpusVars     == <<features_dict, dispute_ids, query, comp_df, benchmarks>>
pageVars       == <<page>>
attributionVars == <<attr_in, contribs>>
predicateVars == <<weights, price_only>>

-----------------------------------------------------------------------------
(* Python values *)

None   == [t |-> "None", v |-> 0]
NaN    == [t |-> "NaN", v |-> 0]
Num(n) == [t |-> "num", v |-> n]

\* bool(x) of an optional number: None and 0 are falsy, NaN is truthy
Truthy(x) == x.t = "NaN" \/ (x.t = "num" /\ x.v # 0)

\* `x or 0`
OrZero(x) == IF Truthy(x) THEN x ELSE Num(0)

\* `x and x > n`: a comparison with NaN is False
TruthyGt(x, n) == Truthy(x) /\ x.t = "num" /\ x.v > n

EmptyDict == [k \in {} |-> None]

DictGet(d, k, default) == IF k \in DOMAIN d THEN d[k] ELSE default

Max2(a, b) == IF a >= b THEN a ELSE b
Min2(a, b) == IF a <= b THEN a ELSE b

-----------------------------------------------------------------------------
(* Text: re.search(pattern, title_text, re.IGNORECASE) over BRAND_PATTERNS *)

UpperCase == <<"A", "B", "C", "D", "E", "F", "G", "H", "I", "J", "K", "L", "M",
               "N", "O", "P", "Q", "R", "S", "T", "U", "V", "W", "X", "Y", "Z">>
LowerCase == <<"a", "b", "c", "d", "e", "f", "g", "h", "i", "j", "k", "l", "m",
               "n", "o", "p", "q", "r", "s", "t", "u", "v", "w", "x", "y", "z">>
Digits == {"0", "1", "2", "3", "4", "5", "6", "7", "8", "9"}

UpperSet == { UpperCase[i] : i \in 1..Len(UpperCase) }
ToLower  == [c \in UpperSet |-> LowerCase[CHOOSE i \in 1..Len(UpperCase) : UpperCase[i] = c]]

\* case folding of re.IGNORECASE
Lower(c) == IF c \in UpperSet THEN ToLower[c] ELSE c

WordChars == UpperSet \cup { LowerCase[i] : i \in 1..Len(LowerCase) } \cup Digits \cup {"_"}

\* the class \w
IsWordChar(c) == c \in WordChars

\* Each catalog entry is the regular expression  \b lit [\b] [.* rest]
BRAND_PATTERNS == <<
    [lit |-> <<"S", "A", "P">>, end_b |-> TRUE, rest |-> <<>>],
    [lit |-> <<"O", "r", "a", "c", "l", "e">>, end_b |-> TRUE, rest |-> <<>>],
    [lit |-> <<"M", "i", "c", "r", "o", "s", "o", "f", "t">>, end_b |-> TRUE, rest |-> <<>>],
    [lit |-> <<"S", "a", "l", "e", "s", "f", "o", "r", "c", "e">>, end_b |-> TRUE, rest |-> <<>>],
    [lit |-> <<"V", "M", "w", "a", "r", "e">>, end_b |-> TRUE, rest |-> <<>>],
    [lit |-> <<"C", "i", "s", "c", "o">>, end_b |-> TRUE, rest |-> <<>>],
    [lit |-> <<"I", "B", "M">>, end_b |-> TRUE, rest |-> <<>>],
    [lit |-> <<"A", "d", "o", "b", "e">>, end_b |-> TRUE, rest |-> <<>>],
    [lit |-> <<"A", "m", "a", "z", "o", "n">>, end_b |-> TRUE, rest |-> <<>>],
    [lit |-> <<"A", "W", "S">>, end_b |-> TRUE, rest |-> <<>>],
    [lit |-> <<"G", "o", "o", "g", "l", "e", " ", "C", "l", "o", "u", "d">>, end_b |-> TRUE, rest |-> <<>>],
    [lit |-> <<"A", "z", "u", "r", "e">>, end_b |-> TRUE, rest |-> <<>>],
    [lit |-> <<"A", "p", "p", "l", "e">>, end_b |-> TRUE, rest |-> <<>>],
    [lit |-> <<"D", "e", "l", "l">>, end_b |-> TRUE, rest |-> <<>>],
    [lit |-> <<"H", "P">>, end_b |-> TRUE, rest |-> <<>>],
    [lit |-> <<"L", "e", "n", "o", "v", "o">>, end_b |-> TRUE, rest |-> <<>>],
    [lit |-> <<"S", "h", "a", "r", "e", "P", "o", "i", "n", "t">>, end_b |-> TRUE, rest |-> <<>>],
    [lit |-> <<"D", "y", "n", "a", "m", "i", "c", "s">>, end_b |-> TRUE, rest |-> <<>>],
    [lit |-> <<"3", "6", "5">>, end_b |-> TRUE, rest |-> <<>>],
    [lit |-> <<"A", "u", "t", "o", "C", "A", "D">>, end_b |-> TRUE, rest |-> <<>>],
    [lit |-> <<"A", "r", "c", "G", "I", "S">>, end_b |-> TRUE, rest |-> <<>>],
    [lit |-> <<"Q", "l", "i", "k">>, end_b |-> TRUE, rest |-> <<>>],
    [lit |-> <<"T", "a", "b", "l", "e", "a", "u">>, end_b |-> TRUE, rest |-> <<>>],
    [lit |-> <<"l", "i", "t", "s", "e", "n", "t", "s">>, end_b |-> FALSE, rest |-> <<>>],
    [lit |-> <<"h", "o", "o", "l", "d", "u", "s">>, end_b |-> FALSE,
     rest |-> <<"l", "e", "p", "i", "n", "g">>]
>>

\* \b at the gap before position i (1 .. Len(s)+1)
BoundaryAt(s, i) ==
    LET before == i > 1 /\ IsWordChar(s[i - 1])
        after  == i <= Len(s) /\ IsWordChar(s[i])
    IN  before # after

\* the literal lit occurs at position i, ignoring case
LitAt(s, i, lit) ==
    /\ i >= 1
    /\ i + Len(lit) - 1 <= Len(s)
    /\ \A k \in 1..Len(lit) : Lower(s[i + k - 1]) = Lower(lit[k])

\* positions where `rest` may start after a greedy .* that began at position from
\* (. does not match a newline)
RestStarts(s, from, rest) ==
    { j \in from..Len(s) :
        /\ LitAt(s, j, rest)
        /\ \A k \in from..(j - 1) : s[k] # "\n" }

\* last position of the match of pattern p that starts at i, or 0 when there is none
MatchEnd(p, s, i) ==
    IF ~(BoundaryAt(s, i) /\ LitAt(s, i, p.lit)) THEN 0
    ELSE IF p.rest = <<>>
         THEN IF p.end_b /\ ~BoundaryAt(s, i + Len(p.lit)) THEN 0
              ELSE i + Len(p.lit) - 1
         ELSE LET js == RestStarts(s, i + Len(p.lit), p.rest)
              IN  IF js = {} THEN 0
                  ELSE (CHOOSE j \in js : \A k \in js : k <= j) + Len(p.rest) - 1

NoMatch == [start |-> 0, end |-> 0]

\* re.search: the leftmost match of p in s
Search(p, s) ==
    LET starts == { i \in 1..Len(s) : MatchEnd(p, s, i) # 0 }
    IN  IF starts = {} THEN NoMatch
        ELSE LET i == CHOOSE i \in starts : \A k \in starts : i <= k
             IN  [start |-> i, end |-> MatchEnd(p, s, i)]

\* m.group(0)
Group0(s, m) == SubSeq(s, m.start, m.end)

\* s[:n]
Prefix(s, n) == SubSeq(s, 1, Min2(n, Len(s)))

-----------------------------------------------------------------------------
(* Compliance Rule Engine: detect_clear_errors, app.py *)

PROCEDURE_LABELS_EN ==
    [p \in {"open", "restricted", "neg-w-call", "neg-wo-call", "oth-single",
            "simplified", "concession"} |->
        CASE p = "open"        -> "Open"
          [] p = "restricted"  -> "Restricted"
          [] p = "neg-w-call"  -> "Negotiated (w/ call)"
          [] p = "neg-wo-call" -> "Negotiated (w/o call)"
          [] p = "oth-single"  -> "Single source"
          [] p = "simplified"  -> "Simplified"
          [] p = "concession"  -> "Concession"]

\* the Estonian labels, written without diacritics
PROCEDURE_LABELS_ET ==
    [p \in {"open", "restricted", "neg-w-call", "neg-wo-call", "oth-single",
            "simplified", "concession"} |->
        CASE p = "open"        -> "Avatud"
          [] p = "restricted"  -> "Piiratud"
          [] p = "neg-w-call"  -> "Labiraakimistega (valjakuulutamisega)"
          [] p = "neg-wo-call" -> "Labiraakimistega (ilma valjakuulutamiseta)"
          [] p = "oth-single"  -> "Otseost"
          [] p = "simplified"  -> "Lihtsustatud"
          [] p = "concession"  -> "Kontsessioon"]

\* _procedure_labels(): reads the session language
ProcedureLabels(l) == IF l = "et" THEN PROCEDURE_LABELS_ET ELSE PROCEDURE_LABELS_EN

\* fmt_eur(v): the amount in tenths of millions, in thousands or in euros
\* (format rounding taken as half-up)
FmtEur(val) ==
    IF val.t # "num" THEN <<"-">>
    ELSE IF val.v >= 1000000 THEN <<"EUR", (val.v + 50000) \div 100000, "tenths M">>
    ELSE IF val.v >= 1000 THEN <<"EUR", (val.v + 500) \div 1000, "K">>
    ELSE <<"EUR", val.v>>

NonCompetitive == {"neg-wo-call", "oth-single"}

\* line 725 with "oth-single" left out of the tuple
NonCompetitiveHighValueNoSingle(proc, val) ==
    proc = "neg-wo-call" /\ TruthyGt(val, 200000)

\* line 725: proc in ("neg-wo-call", "oth-single") and val and val > 200_000
NonCompetitiveHighValue(proc, val) ==
    proc \in NonCompetitive /\ TruthyGt(val, 200000)

\* line 733
SingleSourceWorks(proc, ctype, val) ==
    proc \in NonCompetitive /\ ctype = "works" /\ TruthyGt(val, 5000000)

\* line 740 (also app.py 1070 and pdf_report.py 802), weights as numbers:
\* (qw == 0 and pw > 0) or (total_w > 0 and qw / total_w < 0.01)
IsPriceOnly(pw, qw) ==
    \/ qw = 0 /\ pw > 0
    \/ pw + qw > 0 /\ qw * 100 < pw + qw

\* line 741 with a zero quality weight taken as price-only whatever the price weight
PriceOnlyHighServicesAnyPrice(pw, qw, ctype, val) ==
    (qw = 0 \/ IsPriceOnly(pw, qw)) /\ TruthyGt(val, 500000) /\ ctype = "services"

\* line 741
PriceOnlyHighServices(pw, qw, ctype, val) ==
    IsPriceOnly(pw, qw) /\ TruthyGt(val, 500000) /\ ctype = "services"

\* line 746 without the procedure test
NoCriteriaAnyProcedure(pw, qw, proc) ==
    pw = 0 /\ qw = 0

\* line 746
NoCriteria(pw, qw, proc) ==
    pw = 0 /\ qw = 0 /\ proc \in {"open", "restricted", "neg-w-call"}

\* lines 724-749: procedure issues, then evaluation criteria issues
ProcedureAndCriteriaIssues(r, l) ==
    LET pw    == OrZero(r.price_weight).v
        qw    == OrZero(r.quality_weight).v
        val   == r.estimated_value
        proc  == r.procedure_type
        ctype == r.contract_type
    IN  (IF NonCompetitiveHighValue(proc, val)
         THEN << [rule_id |-> "non_competitive_high_value",
                  detail  |-> <<"Value", FmtEur(val), "awarded via",
                                DictGet(ProcedureLabels(l), proc, proc)>>] >>
         ELSE <<>>)
        \o
        (IF SingleSourceWorks(proc, ctype, val)
         THEN << [rule_id |-> "single_source_works_threshold",
                  detail  |-> <<"Works contract worth", FmtEur(val)>>] >>
         ELSE <<>>)
        \o
        (IF PriceOnlyHighServices(pw, qw, ctype, val)
         THEN << [rule_id |-> "price_only_high_services",
                  detail  |-> <<"Services contract worth", FmtEur(val)>>] >>
         ELSE <<>>)
        \o
        (IF NoCriteria(pw, qw, proc)
         THEN << [rule_id |-> "no_criteria", detail |-> <<"Neither weight defined">>] >>
         ELSE <<>>)

TitleCut == 120

BrandFinding(title_text, m) ==
    [rule_id |-> "brand_name_restriction",
     detail  |-> <<"Procurement title contains", Group0(title_text, m),
                   Prefix(title_text, TitleCut)>>]

\* the for loop of lines 753-762 from pattern k on: one finding for the first
\* pattern that matches, then break
RECURSIVE BrandScanFrom(_, _)
BrandScanFrom(title_text, k) ==
    IF k > Len(BRAND_PATTERNS) THEN <<>>
    ELSE LET m == Search(BRAND_PATTERNS[k], title_text)
         IN  IF m # NoMatch THEN << BrandFinding(title_text, m) >>
             ELSE BrandScanFrom(title_text, k + 1)

\* the same loop without the break
RECURSIVE BrandScanAllFrom(_, _)
BrandScanAllFrom(title_text, k) ==
    IF k > Len(BRAND_PATTERNS) THEN <<>>
    ELSE LET m == Search(BRAND_PATTERNS[k], title_text)
         IN  (IF m # NoMatch THEN << BrandFinding(title_text, m) >> ELSE <<>>)
             \o BrandScanAllFrom(title_text, k + 1)

BrandIssuesNoBreak(title_text) ==
    IF title_text # <<>> THEN BrandScanAllFrom(title_text, 1) ELSE <<>>

\* lines 751-762
BrandIssues(title_text) ==
    IF title_text # <<>> THEN BrandScanFrom(title_text, 1) ELSE <<>>

\* line 768 with the count test dropped
LowCompetitionBuyerAnyCount(profile) ==
    DictGet(profile, "single_bidder_rate", 0) >= 60

\* line 768
LowCompetitionBuyer(profile) ==
    /\ DictGet(profile, "single_bidder_rate", 0) >= 60
    /\ DictGet(profile, "procurement_count", 0) >= 10

\* line 774 with the rate bound off by a comparison
PriceOnlyDisputedBuyerStrict(profile) ==
    /\ DictGet(profile, "price_only_rate", 0) > 95
    /\ DictGet(profile, "vako_disputes", 0) >= 2

\* line 774
PriceOnlyDisputedBuyer(profile) ==
    /\ DictGet(profile, "price_only_rate", 0) >= 95
    /\ DictGet(profile, "vako_disputes", 0) >= 2

\* lines 764-777; profile is buyer_profiles.get(buyer), EmptyDict standing for None
BuyerIssues(buyer, profile) ==
    IF profile # EmptyDict /\ DictGet(profile, "procurement_count", 0) >= 5
    THEN (IF LowCompetitionBuyer(profile)
          THEN << [rule_id |-> "low_competition_buyer",
                   detail  |-> <<buyer, profile["single_bidder_rate"],
                                 profile["procurement_count"]>>] >>
          ELSE <<>>)
         \o
         (IF PriceOnlyDisputedBuyer(profile)
          THEN << [rule_id |-> "price_only_disputed_buyer",
                   detail  |-> <<buyer, profile["price_only_rate"],
                                 profile["vako_disputes"]>>] >>
          ELSE <<>>)
    ELSE <<>>

\* lines 779-781
DataQualityIssues(buyer) ==
    IF buyer = ""
    THEN << [rule_id |-> "missing_buyer", detail |-> <<"Contracting authority not identified">>] >>
    ELSE <<>>

\* line 722: titles_data.get(str(rhr_id), {}).get("title", "")
TitleOf(titles, rhr_id) == DictGet(DictGet(titles, rhr_id, EmptyDict), "title", <<>>)

\* the issues of one row with the data quality check run first
RowIssuesDataQualityFirst(r, profiles, titles, l) ==
    DataQualityIssues(r.buyer_name)
    \o ProcedureAndCriteriaIssues(r, l)
    \o BrandIssues(TitleOf(titles, r.rhr_id))
    \o BuyerIssues(r.buyer_name, DictGet(profiles, r.buyer_name, EmptyDict))

\* the body of the loop over rows, lines 712-796: the issues of one row
RowIssues(r, profiles, titles, l) ==
    ProcedureAndCriteriaIssues(r, l)
    \o BrandIssues(TitleOf(titles, r.rhr_id))
    \o BuyerIssues(r.buyer_name, DictGet(profiles, r.buyer_name, EmptyDict))
    \o DataQualityIssues(r.buyer_name)

-----------------------------------------------------------------------------
(* Quality Scoring Rubric: compute_quality_assessment, scripts/pdf_report.py *)

\* The feature log_deadline_days is the logarithm of the deadline length; the
\* rubric reads it back as 10 ** x.  Log10(d) is the feature value of a deadline
\* of d days (d >= 1), and Num(-1) is the default of the lookup.
Log10(d) == [t |-> "log10", v |-> d]

\* x > 0
LogPositive(x) == x.t = "log10" /\ x.v > 1

\* 10 ** x, for x = Log10(d)
Pow10(x) == x.v

\* the rubric with two tenders already counted as adequate
CompetitionAccessTwoAdequate(features, procedure) ==
    LET tenders == DictGet(features, "tenders_received", -1)
        s1      == CASE procedure = "open"                          -> 15
                     [] procedure = "restricted"                    -> 13
                     [] procedure \in {"neg-wo-call", "oth-single"} -> 2
                     [] procedure = "neg-w-call"                    -> 8
                     [] OTHER                                       -> 10
    IN  [raw     |-> IF tenders >= 5 THEN s1 + 5
                     ELSE IF tenders >= 2 THEN s1 + 3
                     ELSE IF tenders = 1 THEN s1 - 5
                     ELSE s1,
         finding |-> <<>>]

\* lines 760-787
CompetitionAccess(features, procedure) ==
    LET tenders == DictGet(features, "tenders_received", -1)
        base    == 10
        s1      == CASE procedure = "open"                          -> base + 5
                     [] procedure = "restricted"                    -> base + 3
                     [] procedure \in {"neg-wo-call", "oth-single"} -> base - 8
                     [] procedure = "neg-w-call"                    -> base - 2
                     [] OTHER                                       -> base
        f1      == CASE procedure = "open"                          -> <<"open">>
                     [] procedure = "restricted"                    -> <<"restricted">>
                     [] procedure \in {"neg-wo-call", "oth-single"} -> <<"non-competitive">>
                     [] procedure = "neg-w-call"                    -> <<"negotiated">>
                     [] OTHER                                       -> <<>>
        s2      == IF tenders >= 5 THEN s1 + 5
                   ELSE IF tenders >= 3 THEN s1 + 3
                   ELSE IF tenders = 1 /\ tenders # -1 THEN s1 - 5
                   ELSE s1
        f2      == IF tenders >= 5 THEN f1 \o <<"tenders excellent">>
                   ELSE IF tenders >= 3 THEN f1 \o <<"tenders adequate">>
                   ELSE IF tenders = 1 /\ tenders # -1 THEN f1 \o <<"only 1 tender">>
                   ELSE f1
    IN  [raw |-> s2, finding |-> f2]

\* the rubric without the penalty for unpublished weights
CriteriaQualityNoZeroPenalty(features, contract_type) ==
    LET pw      == DictGet(features, "price_weight", 0)
        qw      == DictGet(features, "quality_weight", 0)
        total_w == pw + qw
    IN  [raw     |-> IF IsPriceOnly(pw, qw)
                     THEN (IF contract_type = "services" THEN 4 ELSE 8)
                     ELSE IF total_w > 0 /\ qw * 10 >= 3 * total_w THEN 15
                     ELSE IF total_w > 0 /\ qw * 10 >= total_w THEN 12
                     ELSE 10,
         finding |-> <<>>]

\* lines 799-818
CriteriaQuality(features, contract_type) ==
    LET pw      == DictGet(features, "price_weight", 0)
        qw      == DictGet(features, "quality_weight", 0)
        total_w == pw + qw
        base    == 10
        s1      == IF IsPriceOnly(pw, qw)
                   THEN (IF contract_type = "services" THEN base - 6 ELSE base - 2)
                   ELSE IF total_w > 0 /\ qw * 10 >= 3 * total_w THEN base + 5
                   ELSE IF total_w > 0 /\ qw * 10 >= total_w THEN base + 2
                   ELSE base
        f1      == IF IsPriceOnly(pw, qw)
                   THEN (IF contract_type = "services" THEN <<"price-only services">>
                         ELSE <<"price-only">>)
                   ELSE IF total_w > 0 /\ qw * 10 >= 3 * total_w THEN <<"quality weight good">>
                   ELSE IF total_w > 0 /\ qw * 10 >= total_w THEN <<"quality weight modest">>
                   ELSE <<>>
    IN  IF pw = 0 /\ qw = 0
        THEN [raw |-> s1 - 4, finding |-> <<"no weights published">>]
        ELSE [raw |-> s1, finding |-> f1]

\* bool(features.get(k)) of a 0/1 indicator
Flag(features, k) == DictGet(features, k, 0) # 0

\* the rubric without the penalty for no strategic criteria
StrategicValueNoPenalty(features) ==
    [raw     |-> 8 + (IF Flag(features, "has_green") THEN 4 ELSE 0)
                   + (IF Flag(features, "has_social") THEN 4 ELSE 0)
                   + (IF Flag(features, "has_innovation") THEN 5 ELSE 0),
     finding |-> <<>>]

\* lines 832-850
StrategicValue(features) ==
    LET strategic == (IF Flag(features, "has_green") THEN <<"environmental">> ELSE <<>>)
                     \o (IF Flag(features, "has_social") THEN <<"social">> ELSE <<>>)
                     \o (IF Flag(features, "has_innovation") THEN <<"innovation">> ELSE <<>>)
        s         == 8 + (IF Flag(features, "has_green") THEN 4 ELSE 0)
                       + (IF Flag(features, "has_social") THEN 4 ELSE 0)
                       + (IF Flag(features, "has_innovation") THEN 5 ELSE 0)
    IN  IF strategic # <<>>
        THEN [raw |-> s, finding |-> <<"strategic criteria">> \o strategic]
        ELSE [raw |-> s - 3, finding |-> <<"no strategic criteria">>]

\* the rubric with a published value worth 9 and no deadline adjustment
TransparencyGenerous(features) ==
    [raw     |-> IF ~Flag(features, "value_missing") THEN 12 + 9 ELSE 12 - 4,
     finding |-> <<>>]

\* lines 864-886
Transparency(features) ==
    LET s1 == IF ~Flag(features, "value_missing") THEN 12 + 3 ELSE 12 - 4
        f1 == IF ~Flag(features, "value_missing") THEN <<"value published">>
              ELSE <<"value not published">>
        dl == DictGet(features, "log_deadline_days", Num(-1))
    IN  IF ~Flag(features, "deadline_missing") /\ LogPositive(dl)
        THEN LET days == Pow10(dl)
             IN  IF days >= 30 THEN [raw |-> s1 + 3, finding |-> f1 \o <<"deadline adequate">>]
                 ELSE IF days >= 15 THEN [raw |-> s1 + 1, finding |-> f1 \o <<"deadline short">>]
                 ELSE [raw |-> s1 - 3, finding |-> f1 \o <<"deadline very short">>]
        ELSE [raw |-> s1, finding |-> f1]

\* the penalties with low-severity flags costing 1
RECURSIVE FlagPenaltyLowCounts(_)
FlagPenaltyLowCounts(integrity_flags) ==
    IF integrity_flags = <<>> THEN 0
    ELSE (CASE Head(integrity_flags) \in {"high", "HIGH"}     -> 6
            [] Head(integrity_flags) \in {"medium", "MEDIUM"} -> 3
            [] OTHER                                          -> 1)
         + FlagPenaltyLowCounts(Tail(integrity_flags))

\* lines 904-908: the penalties of the flags, summed
RECURSIVE FlagPenalty(_)
FlagPenalty(integrity_flags) ==
    IF integrity_flags = <<>> THEN 0
    ELSE (CASE Head(integrity_flags) \in {"high", "HIGH"}     -> 6
            [] Head(integrity_flags) \in {"medium", "MEDIUM"} -> 3
            [] OTHER                                          -> 0)
         + FlagPenalty(Tail(integrity_flags))

\* lines 900-919; buyer_profile is EmptyDict for None
IntegrityGovernance(buyer_profile, integrity_flags) ==
    LET s1 == 16 - FlagPenalty(integrity_flags)
        f1 == IF integrity_flags # <<>> THEN <<Len(integrity_flags), "integrity flags">>
              ELSE <<"no integrity concerns">>
        disputes == buyer_profile # EmptyDict /\ DictGet(buyer_profile, "vako_disputes", 0) >= 3
        single   == buyer_profile # EmptyDict /\ DictGet(buyer_profile, "single_bidder_rate", 0) > 50
    IN  [raw     |-> s1 - (IF disputes THEN 3 ELSE 0) - (IF single THEN 2 ELSE 0),
         finding |-> f1 \o (IF disputes THEN <<"multiple past disputes">> ELSE <<>>)
                        \o (IF single THEN <<"high single-bidder rate">> ELSE <<>>)]

\* min(20, s): the clamp with its lower bound missing
ClampUpperOnly(s) == Min2(20, s)

\* max(0, min(20, s)), lines 787, 820, 852, 888 and 921
ClampScore(s) == Max2(0, Min2(20, s))

Dimension(d) == [score |-> ClampScore(d.raw), max |-> 20, finding |-> d.finding]

DimensionNames == {"Competition & Access", "Criteria Quality", "Strategic Value",
                   "Transparency", "Integrity & Governance"}

\* lines 934-941
Summary(overall) ==
    IF overall >= 80 THEN "strong practices"
    ELSE IF overall >= 60 THEN "good foundation"
    ELSE IF overall >= 40 THEN "several dimensions need attention"
    ELSE "significant improvements needed"

\* compute_quality_assessment, lines 744-947
ComputeQualityAssessment(features, procedure, contract_type, sector, buyer_profile, integrity_flags) ==
    LET dimensions ==
            [n \in DimensionNames |->
                CASE n = "Competition & Access"   -> Dimension(CompetitionAccess(features, procedure))
                  [] n = "Criteria Quality"       -> Dimension(CriteriaQuality(features, contract_type))
                  [] n = "Strategic Value"        -> Dimension(StrategicValue(features))
                  [] n = "Transparency"           -> Dimension(Transparency(features))
                  [] n = "Integrity & Governance" ->
                        Dimension(IntegrityGovernance(buyer_profile, integrity_flags))]
        overall == dimensions["Competition & Access"].score
                   + dimensions["Criteria Quality"].score
                   + dimensions["Strategic Value"].score
                   + dimensions["Transparency"].score
                   + dimensions["Integrity & Governance"].score
    IN  [overall_score |-> overall, summary |-> Summary(overall), dimensions |-> dimensions]

-----------------------------------------------------------------------------
(* Recommendation Synthesizer: _generate_action_checklist, app.py *)

\* `kw in scenario.lower()`, kw in lower case
Contains(scenario, kw) == \E i \in 1..Len(scenario) : LitAt(scenario, i, kw)

K_qualification == <<"q", "u", "a", "l", "i", "f", "i", "c", "a", "t", "i", "o", "n">>
K_experience    == <<"e", "x", "p", "e", "r", "i", "e", "n", "c", "e">>
K_brand         == <<"b", "r", "a", "n", "d">>
K_specific      == <<"s", "p", "e", "c", "i", "f", "i", "c">>
K_subjective    == <<"s", "u", "b", "j", "e", "c", "t", "i", "v", "e">>
K_vague         == <<"v", "a", "g", "u", "e">>
K_unclear       == <<"u", "n", "c", "l", "e", "a", "r">>

\* a scenario that is JSON null: .lower() raises AttributeError
NullText == <<"null">>

Item(priority, action, rationale) ==
    [priority |-> priority, action |-> action, rationale |-> rationale]

\* lines 1039-1048
ValueActions(value) ==
    IF TruthyGt(value, 5000000)
    THEN << Item("HIGH", "Conduct pre-publication legal review of tender documents",
                 <<"above 5M", FmtEur(value)>>) >>
    ELSE <<>>

\* lines 1050-1066
ProcedureActions(procedure, value) ==
    IF procedure = "neg-w-call"
    THEN << Item("HIGH", "Document justification for negotiated procedure", <<>>) >>
    ELSE IF procedure \in {"neg-wo-call", "oth-single"} /\ TruthyGt(value, 200000)
    THEN << Item("HIGH", "Verify exemption grounds for non-competitive procedure",
                 <<FmtEur(value)>>) >>
    ELSE <<>>

\* lines 1068-1088; weights in hundredths, so qw > 0.5 is qw > 50
CriteriaActions(pw, qw, contract, value) ==
    IF IsPriceOnly(pw, qw) /\ contract = "services" /\ TruthyGt(value, 200000)
    THEN << Item("MEDIUM", "Consider adding quality criteria to evaluation", <<>>) >>
    ELSE IF qw # 0 /\ qw > 50
    THEN << Item("MEDIUM", "Ensure quality criteria have detailed scoring methodology",
                 <<"quality weight", qw>>) >>
    ELSE <<>>

\* lines 1093-1119 for a scenario text
NarrativeActions(scenario) ==
    (IF Contains(scenario, K_qualification) \/ Contains(scenario, K_experience)
     THEN << Item("MEDIUM", "Review qualification requirements for proportionality", <<>>) >>
     ELSE <<>>)
    \o
    (IF Contains(scenario, K_brand) \/ Contains(scenario, K_specific)
     THEN << Item("HIGH", "Replace brand-specific requirements with functional specifications",
                  <<>>) >>
     ELSE <<>>)
    \o
    (IF Contains(scenario, K_subjective) \/ Contains(scenario, K_vague)
        \/ Contains(scenario, K_unclear)
     THEN << Item("MEDIUM", "Clarify subjective evaluation criteria", <<>>) >>
     ELSE <<>>)

\* the buyer rules with the dispute rule as the alternative of the rate rule
BuyerActionsEither(profile) ==
    IF profile # EmptyDict
    THEN (IF DictGet(profile, "single_bidder_rate", 0) > 30
          THEN << Item("LOW", "Consider market engagement before publication",
                       <<DictGet(profile, "single_bidder_rate", 0)>>) >>
          ELSE IF DictGet(profile, "vako_disputes", 0) >= 3
          THEN << Item("MEDIUM", "Review lessons from previous disputes",
                       <<profile["vako_disputes"]>>) >>
          ELSE <<>>)
    ELSE <<>>

\* lines 1121-1139; profile is EmptyDict for None
BuyerActions(profile) ==
    IF profile # EmptyDict
    THEN (IF DictGet(profile, "single_bidder_rate", 0) > 30
          THEN << Item("LOW", "Consider market engagement before publication",
                       <<DictGet(profile, "single_bidder_rate", 0)>>) >>
          ELSE <<>>)
         \o
         (IF DictGet(profile, "vako_disputes", 0) >= 3
          THEN << Item("MEDIUM", "Review lessons from previous disputes",
                       <<profile["vako_disputes"]>>) >>
          ELSE <<>>)
    ELSE <<>>

\* lines 1141-1149
SectorActions(sector, value) ==
    IF sector = "IT" /\ TruthyGt(value, 1000000)
    THEN << Item("LOW", "Check for unintentional vendor lock-in in technical specifications",
                 <<>>) >>
    ELSE <<>>

\* lines 1151-1158, with `seen` the action texts kept so far
RECURSIVE DedupFrom(_, _)
DedupFrom(actions, seen) ==
    IF actions = <<>> THEN <<>>
    ELSE IF Head(actions).action \notin seen
         THEN <<Head(actions)>> \o DedupFrom(Tail(actions), seen \cup {Head(actions).action})
         ELSE DedupFrom(Tail(actions), seen)

\* the kept items re-sorted by priority
DedupThenSortByPriority(actions) ==
    LET kept == DedupFrom(actions, {})
    IN  SelectSeq(kept, LAMBDA it : it.priority = "HIGH")
        \o SelectSeq(kept, LAMBDA it : it.priority = "MEDIUM")
        \o SelectSeq(kept, LAMBDA it : it.priority = "LOW")

\* lines 1151-1158
Dedup(actions) == DedupFrom(actions, {})

\* line 1091-1092: does the narrative block call .lower() on a null scenario
ScenarioRaises(llm_result) ==
    llm_result # EmptyDict /\ DictGet(llm_result, "llm_scenario", <<>>) = NullText

\* lines 1029-1149: `actions` before deduplication
RawActions(monthly_rec, feat_rec, llm_result, profile) ==
    LET procedure == DictGet(monthly_rec, "procedure_type", "")
        contract  == DictGet(monthly_rec, "contract_type", "")
        sector    == DictGet(monthly_rec, "sector", "")
        value     == DictGet(monthly_rec, "estimated_value", None)
        feat      == DictGet(feat_rec, "features", EmptyDict)
        pw        == DictGet(feat, "price_weight", 0)
        qw        == DictGet(feat, "quality_weight", 0)
    IN  ValueActions(value)
        \o ProcedureActions(procedure, value)
        \o CriteriaActions(pw, qw, contract, value)
        \o (IF llm_result # EmptyDict
            THEN NarrativeActions(DictGet(llm_result, "llm_scenario", <<>>))
            ELSE <<>>)
        \o BuyerActions(profile)
        \o SectorActions(sector, value)

\* one append per keyword found, and `actions` returned as it is
NarrativeActionsPerKeyword(scenario) ==
    LET one(kw, it) == IF Contains(scenario, kw) THEN <<it>> ELSE <<>>
        q == Item("MEDIUM", "Review qualification requirements for proportionality", <<>>)
        b == Item("HIGH", "Replace brand-specific requirements with functional specifications", <<>>)
        v == Item("MEDIUM", "Clarify subjective evaluation criteria", <<>>)
    IN  one(K_qualification, q) \o one(K_experience, q) \o one(K_brand, b)
        \o one(K_specific, b) \o one(K_subjective, v) \o one(K_vague, v) \o one(K_unclear, v)

GenerateActionChecklistPerKeyword(monthly_rec, feat_rec, llm_result, profile, contrib_df) ==
    IF ScenarioRaises(llm_result) THEN [raised |-> TRUE, items |-> <<>>]
    ELSE [raised |-> FALSE,
          items  |-> RawActions(monthly_rec, feat_rec, EmptyDict, profile)
                     \o (IF llm_result # EmptyDict
                         THEN NarrativeActionsPerKeyword(DictGet(llm_result, "llm_scenario", <<>>))
                         ELSE <<>>)]

\* _generate_action_checklist, lines 1023-1158: the list returned, or the
\* AttributeError of line 1093
GenerateActionChecklist(monthly_rec, feat_rec, llm_result, profile, contrib_df) ==
    IF ScenarioRaises(llm_result) THEN [raised |-> TRUE, items |-> <<>>]
    ELSE [raised |-> FALSE,
          items  |-> Dedup(RawActions(monthly_rec, feat_rec, llm_result, profile))]

-----------------------------------------------------------------------------
(* Comparable Match Finder and Sector Benchmark Aggregator, app.py *)

\* The corpus features_dict is the sequence of its records in dict order; the
\* rhr_id of a record is a number standing for its digit string.  The feature
\* log_estimated_value is a natural logarithm: LnOf(v) is the feature value of
\* a record worth v, and the lookup default is Num(0).
LnOf(v) == [t |-> "ln", v |-> v]

\* np.exp(x), in exact arithmetic
Exp(x) == IF x.t = "ln" THEN x.v ELSE 1

\* f"sector_{sector}"
SectorKey(sector) ==
    CASE sector = "IT"      -> "sector_IT"
      [] sector = "health"  -> "sector_health"
      [] sector = "defense" -> "sector_defense"
      [] OTHER              -> "sector_"

\* f"proc_{procedure}"
ProcKey(procedure) ==
    CASE procedure = "open"        -> "proc_open"
      [] procedure = "restricted"  -> "proc_restricted"
      [] procedure = "neg-w-call"  -> "proc_neg-w-call"
      [] procedure = "neg-wo-call" -> "proc_neg-wo-call"
      [] procedure = "oth-single"  -> "proc_oth-single"
      [] OTHER                     -> "proc_"

\* the filters with the value band applied to every candidate, a missing value
\* read as value 1
IsComparableBandForAll(rec, sector, procedure, value, exclude_rhr) ==
    LET feat == DictGet(rec, "features", EmptyDict)
    IN  /\ rec.rhr_id # exclude_rhr
        /\ ~(sector # "" /\ DictGet(feat, SectorKey(sector), 0) # 1)
        /\ ~(procedure # "" /\ DictGet(feat, ProcKey(procedure), 0) # 1)
        /\ ~(/\ Truthy(value)
             /\ value.t = "num"
             /\ LET rec_value == Exp(DictGet(feat, "log_estimated_value", Num(0)))
                IN  rec_value * 3 < value.v \/ rec_value > value.v * 3)

\* lines 968-981: does the scan keep the record
IsComparable(rec, sector, procedure, value, exclude_rhr) ==
    LET feat == DictGet(rec, "features", EmptyDict)
    IN  /\ rec.rhr_id # exclude_rhr
        /\ ~(sector # "" /\ DictGet(feat, SectorKey(sector), 0) # 1)
        /\ ~(procedure # "" /\ DictGet(feat, ProcKey(procedure), 0) # 1)
        /\ ~(/\ Truthy(value)
             /\ DictGet(feat, "value_missing", 1) = 0
             /\ value.t = "num"
             /\ LET rec_value == Exp(DictGet(feat, "log_estimated_value", Num(0)))
                IN  rec_value * 3 < value.v \/ rec_value > value.v * 3)

\* lines 982-994: the row appended for a kept record
ComparableRow(rec, disputes, titles) ==
    LET feat       == DictGet(rec, "features", EmptyDict)
        title_info == DictGet(titles, rec.rhr_id, EmptyDict)
    IN  [rhr_id         |-> rec.rhr_id,
         title          |-> Prefix(DictGet(title_info, "title", <<>>), 80),
         buyer          |-> DictGet(title_info, "buyer", DictGet(rec, "buyer_name", "")),
         value          |-> IF DictGet(feat, "value_missing", 1) = 0
                            THEN Num(Exp(DictGet(feat, "log_estimated_value", Num(0))))
                            ELSE None,
         disputed       |-> rec.rhr_id \in disputes,
         score          |-> DictGet(rec, "stage1_probability", 0),
         price_weight   |-> DictGet(feat, "price_weight", 0),
         quality_weight |-> DictGet(feat, "quality_weight", 0)]

\* lines 967-994: the rows of the kept records, in corpus order
RECURSIVE ComparableRows(_, _, _, _, _, _, _)
ComparableRows(corpus, disputes, titles, sector, procedure, value, exclude_rhr) ==
    IF corpus = <<>> THEN <<>>
    ELSE (IF IsComparable(Head(corpus), sector, procedure, value, exclude_rhr)
          THEN << ComparableRow(Head(corpus), disputes, titles) >>
          ELSE <<>>)
         \o ComparableRows(Tail(corpus), disputes, titles, sector, procedure, value, exclude_rhr)

\* rows by score descending, rows of equal score in their given order
RECURSIVE ByScoreDesc(_, _)
ByScoreDesc(rows, scores) ==
    IF scores = {} THEN <<>>
    ELSE LET top == CHOOSE x \in scores : \A y \in scores : y <= x
         IN  SelectSeq(rows, LAMBDA r : r.score = top) \o ByScoreDesc(rows, scores \ {top})

\* the rows by score alone
SortByScoreOnly(rows) == ByScoreDesc(rows, { rows[i].score : i \in 1..Len(rows) })

\* line 999: sort_values(["disputed", "score"], ascending=[False, False]), a stable
\* sort on the two keys
SortValues(rows) ==
    LET scores == { rows[i].score : i \in 1..Len(rows) }
    IN  ByScoreDesc(SelectSeq(rows, LAMBDA r : r.disputed), scores)
        \o ByScoreDesc(SelectSeq(rows, LAMBDA r : ~r.disputed), scores)

TopN == 20

\* the sorted frame returned whole
HeadAll(rows) == rows

\* line 999: .head(20)
HeadN(rows) == SubSeq(rows, 1, Min2(TopN, Len(rows)))

\* _find_comparable_procurements, lines 959-1000 (contract_type is not read)
FindComparableProcurements(corpus, disputes, titles, sector, procedure, contract_type, value, exclude_rhr) ==
    LET rows == ComparableRows(corpus, disputes, titles, sector, procedure, value, exclude_rhr)
    IN  IF rows = <<>> THEN <<>> ELSE HeadN(SortValues(rows))

\* a fraction a / b
Frac(a, b) == [num |-> a, den |-> b]

\* the values of seq in ascending order
RECURSIVE Ascending(_)
Ascending(seq) ==
    IF seq = <<>> THEN <<>>
    ELSE LET i == CHOOSE i \in 1..Len(seq) : \A j \in 1..Len(seq) : seq[i] <= seq[j]
         IN  <<seq[i]>> \o Ascending(SubSeq(seq, 1, i - 1) \o SubSeq(seq, i + 1, Len(seq)))

RECURSIVE Sum(_)
Sum(seq) == IF seq = <<>> THEN 0 ELSE Head(seq) + Sum(Tail(seq))

\* np.median
Median(seq) ==
    LET a == Ascending(seq)
        n == Len(a)
    IN  IF n % 2 = 1 THEN Frac(a[(n + 1) \div 2], 1)
        ELSE Frac(a[n \div 2] + a[n \div 2 + 1], 2)

\* np.mean
Mean(seq) == Frac(Sum(seq), Len(seq))

\* lines 1170-1185: the records of the sector, in corpus order
SectorRecords(corpus, sector) ==
    SelectSeq(corpus, LAMBDA rec :
        DictGet(DictGet(rec, "features", EmptyDict), SectorKey(sector), 0) # 0)

\* lines 1177-1178: the known values of the records
RECURSIVE KnownValues(_)
KnownValues(recs) ==
    IF recs = <<>> THEN <<>>
    ELSE LET feat == DictGet(Head(recs), "features", EmptyDict)
         IN  (IF DictGet(feat, "value_missing", 1) = 0
              THEN << Exp(DictGet(feat, "log_estimated_value", Num(0))) >>
              ELSE <<>>)
             \o KnownValues(Tail(recs))

\* lines 1179-1185: the positive quality weights of the records
RECURSIVE QualityWeights(_)
QualityWeights(recs) ==
    IF recs = <<>> THEN <<>>
    ELSE LET qw == DictGet(DictGet(Head(recs), "features", EmptyDict), "quality_weight", 0)
         IN  (IF qw > 0 THEN <<qw>> ELSE <<>>) \o QualityWeights(Tail(recs))

\* price-only read as "no quality weight"
BenchPriceOnlyZeroQuality(rec) ==
    DictGet(DictGet(rec, "features", EmptyDict), "quality_weight", 0) = 0

\* lines 1179-1183
BenchPriceOnly(rec) ==
    LET feat == DictGet(rec, "features", EmptyDict)
        pw   == DictGet(feat, "price_weight", 0)
        qw   == DictGet(feat, "quality_weight", 0)
    IN  pw + qw > 0 /\ qw * 100 < pw + qw

\* lines 1189-1196: the benchmark of a non-empty or empty list of records
BenchmarkOf(recs, disputes) ==
    LET total_count      == Len(recs)
        dispute_count    == Len(SelectSeq(recs, LAMBDA rec : rec.rhr_id \in disputes))
        price_only_count == Len(SelectSeq(recs, BenchPriceOnly))
        values           == KnownValues(recs)
        quality_weights  == QualityWeights(recs)
    IN  [total              |-> total_count,
         dispute_rate       |-> IF total_count # 0 THEN Frac(dispute_count, total_count)
                                ELSE Frac(0, 1),
         median_value       |-> IF values # <<>> THEN Median(values) ELSE None,
         mean_value         |-> IF values # <<>> THEN Mean(values) ELSE None,
         price_only_rate    |-> IF total_count # 0 THEN Frac(price_only_count, total_count)
                                ELSE Frac(0, 1),
         avg_quality_weight |-> IF quality_weights # <<>> THEN Mean(quality_weights)
                                ELSE Frac(0, 1)]

\* the function without the early return of lines 1187-1188
ComputeSectorBenchmarksNoEarlyReturn(corpus, disputes, sector) ==
    BenchmarkOf(SectorRecords(corpus, sector), disputes)

\* _compute_sector_benchmarks, lines 1161-1196
ComputeSectorBenchmarks(corpus, disputes, sector) ==
    LET recs == SectorRecords(corpus, sector)
    IN  IF Len(recs) = 0 THEN EmptyDict ELSE BenchmarkOf(recs, disputes)

-----------------------------------------------------------------------------
(* Inputs of the compliance engine *)

MaxRuns == 2
MaxTitleWords == 2

Procedures == {"open", "restricted", "neg-w-call", "neg-wo-call", "oth-single", "simplified"}
ContractTypes == {"services", "supplies", "works"}
Buyers == {"", "B1"}

RowValues == {None, NaN, Num(200000), Num(600000), Num(5000000), Num(6000000)}
RowPriceWeights == {None, Num(0), Num(100)}
RowQualityWeights == {None, Num(0), Num(1), Num(40)}

Rows ==
    [rhr_id : {"R1"}, price_weight : RowPriceWeights, quality_weight : RowQualityWeights,
     estimated_value : RowValues, procedure_type : Procedures,
     contract_type : ContractTypes, buyer_name : Buyers]

Profiles ==
    [procurement_count : {4, 5, 12}, single_bidder_rate : {50, 60, 70},
     price_only_rate : {90, 95}, vako_disputes : {1, 2}]

\* profile tables with at most one buyer
ProfileTables == {EmptyDict} \cup { [b \in {name} |-> p] : name \in Buyers, p \in Profiles }

W_SAP        == <<"S", "A", "P">>
W_sap        == <<"s", "a", "p">>
W_SAPs       == <<"S", "A", "P", "s">>
W_Oracle     == <<"O", "r", "a", "c", "l", "e">>
W_litsentsid == <<"l", "i", "t", "s", "e", "n", "t", "s", "i", "d">>
W_hooldus    == <<"h", "o", "o", "l", "d", "u", "s">>
W_leping     == <<"l", "e", "p", "i", "n", "g">>
W_for        == <<"f", "o", "r">>

TitleWords == {W_SAP, W_sap, W_SAPs, W_Oracle, W_litsentsid, W_hooldus, W_leping, W_for}

RECURSIVE Join(_)
Join(ws) ==
    IF ws = <<>> THEN <<>>
    ELSE IF Len(ws) = 1 THEN ws[1]
    ELSE ws[1] \o <<" ">> \o Join(Tail(ws))

\* n characters "x x x ..."
Filler(n) == [i \in 1..n |-> IF i % 2 = 1 THEN "x" ELSE " "]

LongPad == 130

WordSeqs == UNION { [1..k -> TitleWords] : k \in 1..MaxTitleWords }

\* the empty title, the words joined by spaces, and each single word with a long
\* run of filler words after it or before it
Titles ==
    {<<>>}
    \cup { Join(ws) : ws \in WordSeqs }
    \cup { w \o <<" ">> \o Filler(LongPad) : w \in TitleWords }
    \cup { Filler(LongPad) \o <<" ">> \o w : w \in TitleWords }

TitleTables == {EmptyDict} \cup { [k \in {"R1"} |-> [title |-> t]] : t \in Titles }

SapOracle == Join(<<W_SAP, W_Oracle>>)

-----------------------------------------------------------------------------
(* The state before any component has run; every specification starts from *)
(* it with its own component's inputs drawn from bounded sets.             *)

Unset == [t |-> "unset"]

IdleCompliance ==
    /\ lang = "en"
    /\ row = Unset
    /\ buyer_profiles = EmptyDict
    /\ titles_data = EmptyDict
    /\ flags = <<>>
    /\ first_flags = <<>>
    /\ runs = 0

IdleQuality == qa_in = Unset /\ qa = Unset

IdleChecklist == cl_in = Unset /\ checklist = Unset

IdleCorpus ==
    /\ features_dict = <<>>
    /\ dispute_ids = {}
    /\ query = Unset
    /\ comp_df = <<>>
    /\ benchmarks = EmptyDict

IdlePage == page = Unset

IdleAttribution == attr_in = Unset /\ contribs = Unset
IdlePredicate == weights = Unset /\ price_only = Unset

\* detect_clear_errors over a DataFrame of one row
DetectClearErrors ==
    /\ runs < MaxRuns
    /\ row # Unset
    /\ flags' = RowIssues(row, buyer_profiles, titles_data, lang)
    /\ first_flags' = IF runs = 0 THEN flags' ELSE first_flags
    /\ runs' = runs + 1
    /\ pc' = "detect_clear_errors"
    /\ UNCHANGED <<lang, row, buyer_profiles, titles_data>>
    /\ UNCHANGED <<qualityVars, checklistVars, corpusVars, pageVars, attributionVars, predicateVars>>

\* the sidebar language toggle, lines 1403-1408
SetLanguage ==
    /\ lang' = IF lang = "en" THEN "et" ELSE "en"
    /\ UNCHANGED <<row, buyer_profiles, titles_data, flags, first_flags, runs, pc>>
    /\ UNCHANGED <<qualityVars, checklistVars, corpusVars, pageVars, attributionVars, predicateVars>>

\* Rules: every row and buyer profile, one run
InitRules ==
    /\ IdleQuality /\ IdleChecklist /\ IdleCorpus /\ IdlePage /\ IdleAttribution /\ IdlePredicate
    /\ pc = "init"
    /\ lang = "en"
    /\ row \in Rows
    /\ buyer_profiles \in ProfileTables
    /\ titles_data \in {EmptyDict, [k \in {"R1"} |-> [title |-> SapOracle]]}
    /\ flags = <<>> /\ first_flags = <<>> /\ runs = 0

NextRules == runs = 0 /\ DetectClearErrors

SpecRules == InitRules /\ [][NextRules]_vars

\* Brand scan: every title, one run
BrandRows ==
    { r \in Rows : /\ r.price_weight = Num(100) /\ r.quality_weight = Num(0)
                   /\ r.estimated_value \in {None, Num(600000)}
                   /\ r.procedure_type \in {"open", "oth-single"}
                   /\ r.contract_type = "services" }

InitBrand ==
    /\ IdleQuality /\ IdleChecklist /\ IdleCorpus /\ IdlePage /\ IdleAttribution /\ IdlePredicate
    /\ pc = "init"
    /\ lang = "en"
    /\ row \in BrandRows
    /\ buyer_profiles = EmptyDict
    /\ titles_data \in TitleTables
    /\ flags = <<>> /\ first_flags = <<>> /\ runs = 0

NextBrand == runs = 0 /\ DetectClearErrors

SpecBrand == InitBrand /\ [][NextBrand]_vars

\* Re-runs: the engine runs again on the same inputs, the user may switch language
RerunRows ==
    { r \in Rows : /\ r.price_weight = Num(100) /\ r.quality_weight \in {Num(0), Num(40)}
                   /\ r.estimated_value \in {None, Num(600000), Num(6000000)}
                   /\ r.contract_type \in {"services", "works"} }

InitRerun ==
    /\ IdleQuality /\ IdleChecklist /\ IdleCorpus /\ IdlePage /\ IdleAttribution /\ IdlePredicate
    /\ pc = "init"
    /\ lang \in {"en", "et"}
    /\ row \in RerunRows
    /\ buyer_profiles \in {EmptyDict,
                           [b \in {"B1"} |-> [procurement_count |-> 12, single_bidder_rate |-> 60,
                                              price_only_rate |-> 95, vako_disputes |-> 2]]}
    /\ titles_data \in {EmptyDict, [k \in {"R1"} |-> [title |-> SapOracle]]}
    /\ flags = <<>> /\ first_flags = <<>> /\ runs = 0

NextRerun == DetectClearErrors \/ SetLanguage

SpecRerun == InitRerun /\ [][NextRerun]_vars

-----------------------------------------------------------------------------
(* Claims about the Compliance Rule Engine *)

HasRule(fs, id) == \E i \in 1..Len(fs) : fs[i].rule_id = id

CountRule(fs, id) == Cardinality({ i \in 1..Len(fs) : fs[i].rule_id = id })

Ran == pc = "detect_clear_errors"

\* the profile the engine finds for the row's buyer (EmptyDict when there is none)
RowProfile == DictGet(buyer_profiles, row.buyer_name, EmptyDict)

\* C4: a second run of the engine on the same row, buyer profiles and titles
\* returns the findings of the first run, detail text included, whatever else
\* changed in the process in between.
C4_RerunIdentical == runs >= 2 => flags = first_flags

\* C5: a non-competitive works record above 5,000,000 has both procedure
\* findings; single_source_works_threshold never comes without
\* non_competitive_high_value; non_competitive_high_value is emitted exactly when
\* the procedure is non-competitive and the value is a number above 200,000.
C5_NonCompetitiveFindings ==
    Ran =>
        LET proc == row.procedure_type
            val  == row.estimated_value
            nc   == proc = "neg-wo-call" \/ proc = "oth-single"
        IN  /\ (nc /\ row.contract_type = "works" /\ val.t = "num" /\ val.v > 5000000)
                => /\ HasRule(flags, "non_competitive_high_value")
                   /\ HasRule(flags, "single_source_works_threshold")
            /\ HasRule(flags, "single_source_works_threshold")
                => HasRule(flags, "non_competitive_high_value")
            /\ HasRule(flags, "non_competitive_high_value")
                <=> (nc /\ val.t = "num" /\ val.v > 200000)

C5_Witness ==
    /\ Ran
    /\ row.procedure_type = "oth-single"
    /\ row.contract_type = "works"
    /\ row.estimated_value = Num(6000000)
    /\ HasRule(flags, "non_competitive_high_value")
    /\ HasRule(flags, "single_source_works_threshold")

\* C6 as stated: price_only_disputed_buyer is emitted exactly when the buyer has
\* a profile with price-only rate >= 0.95 and dispute count >= 2.
C6_ProfileRateAndDisputesOnly ==
    Ran =>
        (HasRule(flags, "price_only_disputed_buyer")
            <=> /\ RowProfile # EmptyDict
                /\ RowProfile.price_only_rate >= 95
                /\ RowProfile.vako_disputes >= 2)

\* C6 amended: price_only_disputed_buyer is emitted exactly when the buyer has a
\* profile with procurement count >= 5, price-only rate >= 0.95 and dispute
\* count >= 2.
C6_NeedsFiveProcurements ==
    Ran =>
        (HasRule(flags, "price_only_disputed_buyer")
            <=> /\ RowProfile # EmptyDict
                /\ RowProfile.procurement_count >= 5
                /\ RowProfile.price_only_rate >= 95
                /\ RowProfile.vako_disputes >= 2)

C6_Witness ==
    /\ Ran
    /\ RowProfile # EmptyDict
    /\ RowProfile.procurement_count = 5
    /\ RowProfile.price_only_rate = 95
    /\ RowProfile.vako_disputes = 2
    /\ HasRule(flags, "price_only_disputed_buyer")

\* C7: low_competition_buyer is emitted exactly when the buyer has a profile with
\* procurement count >= 10 and single-bidder rate >= 0.6: present for count 12 and
\* rate 0.7, absent for count 4 and rate 0.7, absent without a profile.
C7_LowCompetitionBuyer ==
    Ran =>
        /\ HasRule(flags, "low_competition_buyer")
            <=> /\ RowProfile # EmptyDict
                /\ RowProfile.procurement_count >= 10
                /\ RowProfile.single_bidder_rate >= 60
        /\ (RowProfile # EmptyDict /\ RowProfile.procurement_count = 4
            /\ RowProfile.single_bidder_rate = 70)
                => ~HasRule(flags, "low_competition_buyer")

C7_Witness ==
    /\ Ran
    /\ RowProfile # EmptyDict
    /\ RowProfile.procurement_count = 12
    /\ RowProfile.single_bidder_rate = 70
    /\ HasRule(flags, "low_competition_buyer")

\* the catalog positions whose pattern matches the title
MatchingPatterns(t) == { k \in 1..Len(BRAND_PATTERNS) : Search(BRAND_PATTERNS[k], t) # NoMatch }

BrandFindings == SelectSeq(flags, LAMBDA f : f.rule_id = "brand_name_restriction")

\* C8: the brand scan emits exactly one brand_name_restriction finding when the
\* title is non-empty and some catalog pattern matches it, none otherwise, never
\* two; the quoted text is the match of the first matching pattern in catalog
\* order ("SAP" for a title with both SAP and Oracle) and the quoted title is the
\* first 120 characters of the title.
C8_BrandScan ==
    Ran =>
        LET t  == TitleOf(titles_data, row.rhr_id)
            ks == MatchingPatterns(t)
        IN  /\ Len(BrandFindings) = IF t # <<>> /\ ks # {} THEN 1 ELSE 0
            /\ Len(BrandFindings) = 1 =>
                LET first == CHOOSE k \in ks : \A j \in ks : k <= j
                    d     == BrandFindings[1].detail
                IN  /\ d[2] = Group0(t, Search(BRAND_PATTERNS[first], t))
                    /\ Len(d[3]) <= 120
                    /\ d[3] = SubSeq(t, 1, Len(d[3]))
                    /\ Len(d[3]) < 120 => d[3] = t
            /\ t = Join(<<W_Oracle, W_SAP>>) => BrandFindings[1].detail[2] = W_SAP

C8_Witness ==
    /\ Ran
    /\ TitleOf(titles_data, row.rhr_id) = Join(<<W_Oracle, W_SAP>>)
    /\ Cardinality(MatchingPatterns(TitleOf(titles_data, row.rhr_id))) = 2
    /\ Len(BrandFindings) = 1
    /\ BrandFindings[1].detail[2] = W_SAP

-----------------------------------------------------------------------------
(* The quality rubric as a state machine: arguments drawn, then one call *)

MaxFlags == 2

QualityProcedures == {"open", "neg-w-call", "oth-single", "simplified"}

\* (price weight, quality weight): none, price only, ratio below 0.1, ratio 0.4
QualityWeightPairs == {<<0, 0>>, <<100, 0>>, <<100, 10>>, <<60, 40>>}

\* (has_green, has_social, has_innovation)
StrategicFlags == {<<0, 0, 0>>, <<1, 0, 0>>, <<0, 0, 1>>, <<1, 1, 1>>}

\* (deadline_missing, log_deadline_days)
Deadlines == {<<1, Num(-1)>>, <<0, Num(-1)>>, <<0, Log10(10)>>, <<0, Log10(30)>>}

QualityFeatures ==
    { [price_weight |-> w[1], quality_weight |-> w[2], tenders_received |-> tn,
       has_green |-> g[1], has_social |-> g[2], has_innovation |-> g[3],
       value_missing |-> vm, deadline_missing |-> d[1], log_deadline_days |-> d[2]] :
      w \in QualityWeightPairs, tn \in {-1, 1, 3, 5}, g \in StrategicFlags,
      vm \in {0, 1}, d \in Deadlines }

QualityProfiles ==
    {EmptyDict,
     [vako_disputes |-> 3, single_bidder_rate |-> 60],
     [vako_disputes |-> 0, single_bidder_rate |-> 30]}

Severities == {"high", "medium", "low"}

FlagLists == UNION { [1..n -> Severities] : n \in 0..MaxFlags }

\* every procedure branch and tender count around the thresholds, every
\* criteria branch with each contract type; the other arguments fixed
AllProcedures == QualityProcedures \cup {"restricted", "neg-wo-call", ""}

AllWeightPairs ==
    QualityWeightPairs \cup {<<80, 20>>, <<70, 30>>, <<90, 10>>, <<1000, 1>>, <<990, 10>>, <<0, 50>>}

CompetitionCriteriaCases ==
    { [features |-> [price_weight |-> w[1], quality_weight |-> w[2], tenders_received |-> tn,
                     has_green |-> 0, has_social |-> 1, has_innovation |-> 0,
                     value_missing |-> 0, deadline_missing |-> 0,
                     log_deadline_days |-> Log10(20)],
       procedure |-> p, contract_type |-> c, sector |-> "IT",
       buyer_profile |-> EmptyDict, integrity_flags |-> <<>>] :
      w \in AllWeightPairs, tn \in -1..6, p \in AllProcedures,
      c \in {"services", "supplies", "works"} }

\* deadlines of 1 day and around 15 and 30 days
AllDeadlines ==
    Deadlines \cup { <<0, Log10(d)>> : d \in {1, 2, 14, 15, 29, 31} } \cup {<<1, Log10(30)>>}

AllProfiles ==
    QualityProfiles \cup { [vako_disputes |-> n, single_bidder_rate |-> r] :
                           n \in {2, 3}, r \in {50, 51} }

SeverityLists == UNION { [1..n -> Severities \cup {"HIGH", "MEDIUM"}] : n \in 0..MaxFlags }

TransparencyIntegrityCases ==
    { [features |-> [price_weight |-> 60, quality_weight |-> 40, tenders_received |-> 4,
                     has_green |-> g[1], has_social |-> g[2], has_innovation |-> g[3],
                     value_missing |-> vm, deadline_missing |-> d[1],
                     log_deadline_days |-> d[2]],
       procedure |-> "restricted", contract_type |-> "works", sector |-> "IT",
       buyer_profile |-> bp, integrity_flags |-> fl] :
      g \in {0, 1} \X {0, 1} \X {0, 1}, vm \in {0, 1}, d \in AllDeadlines,
      bp \in AllProfiles, fl \in SeverityLists }

InitQuality ==
    /\ IdleCompliance /\ IdleChecklist /\ IdleCorpus /\ IdlePage /\ IdleAttribution /\ IdlePredicate
    /\ pc = "init"
    /\ qa_in \in [features : QualityFeatures, procedure : QualityProcedures,
                  contract_type : {"services", "supplies"}, sector : {"IT"},
                  buyer_profile : QualityProfiles, integrity_flags : FlagLists]
                 \cup CompetitionCriteriaCases \cup TransparencyIntegrityCases
    /\ qa = Unset

ComputeQuality ==
    /\ pc = "init"
    /\ qa_in # Unset
    /\ qa' = ComputeQualityAssessment(qa_in.features, qa_in.procedure, qa_in.contract_type,
                                      qa_in.sector, qa_in.buyer_profile, qa_in.integrity_flags)
    /\ pc' = "compute_quality_assessment"
    /\ UNCHANGED <<qa_in, complianceVars, checklistVars, corpusVars, pageVars, attributionVars, predicateVars>>

NextQuality == ComputeQuality

SpecQuality == InitQuality /\ [][NextQuality]_vars

\* C1: after compute_quality_assessment each of the five dimension scores lies
\* in 0..20, overall_score is their sum and lies in 0..100.
C1_ScoresInRange ==
    pc = "compute_quality_assessment" =>
        /\ DOMAIN qa.dimensions = DimensionNames
        /\ \A n \in DimensionNames :
              qa.dimensions[n].score >= 0 /\ qa.dimensions[n].score <= 20
        /\ qa.overall_score = qa.dimensions["Competition & Access"].score
                              + qa.dimensions["Criteria Quality"].score
                              + qa.dimensions["Strategic Value"].score
                              + qa.dimensions["Transparency"].score
                              + qa.dimensions["Integrity & Governance"].score
        /\ qa.overall_score >= 0 /\ qa.overall_score <= 100

\* the arithmetic leaves 0..20 in three dimensions at once and the clamp brings
\* each back
C1_Witness ==
    /\ pc = "compute_quality_assessment"
    /\ CompetitionAccess(qa_in.features, qa_in.procedure).raw < 0
    /\ StrategicValue(qa_in.features).raw > 20
    /\ IntegrityGovernance(qa_in.buyer_profile, qa_in.integrity_flags).raw < 0
    /\ qa.dimensions["Competition & Access"].score = 0
    /\ qa.dimensions["Strategic Value"].score = 20
    /\ qa.dimensions["Integrity & Governance"].score = 0

-----------------------------------------------------------------------------
(* The recommendation synthesizer as a state machine *)

MaxScenarioWords == 2

T_Qualification == <<"Q", "u", "a", "l", "i", "f", "i", "c", "a", "t", "i", "o", "n">>
T_rebranding    == <<"r", "e", "b", "r", "a", "n", "d", "i", "n", "g">>
T_Unclear       == <<"U", "n", "c", "l", "e", "a", "r">>

ScenarioWords == {T_Qualification, K_experience, T_rebranding, T_Unclear}

\* word sequences, and every keyword on its own
Scenarios ==
    { Join(ws) : ws \in UNION { [1..k -> ScenarioWords] : k \in 0..MaxScenarioWords } }
    \cup {K_qualification, K_experience, K_brand, K_specific, K_subjective, K_vague, K_unclear}

\* None, a result without scenario, a null scenario, a scenario text
LlmResults ==
    {EmptyDict, [k \in {"llm_score"} |-> <<"5">>], [k \in {"llm_scenario"} |-> NullText]}
    \cup { [k \in {"llm_scenario"} |-> t] : t \in Scenarios }

MonthlyRecs ==
    {EmptyDict} \cup
    [procedure_type : {"open", "neg-w-call", "oth-single"},
     contract_type : {"services", "works"},
     sector : {"IT", "health"},
     estimated_value : {None, Num(200000), Num(600000), Num(1000000), Num(2000000),
                        Num(6000000)}]

\* None, or features with (price weight, quality weight) in hundredths
FeatRecs ==
    {EmptyDict} \cup
    { [features |-> [price_weight |-> w[1], quality_weight |-> w[2]]] :
        w \in {<<0, 0>>, <<100, 0>>, <<60, 40>>, <<40, 60>>, <<50, 50>>, <<6000, 4000>>} }

ChecklistProfiles ==
    {EmptyDict} \cup [single_bidder_rate : {30, 40}, vako_disputes : {2, 3}]

InitChecklist ==
    /\ IdleCompliance /\ IdleQuality /\ IdleCorpus /\ IdlePage /\ IdleAttribution /\ IdlePredicate
    /\ pc = "init"
    /\ cl_in \in [monthly_rec : MonthlyRecs, feat_rec : FeatRecs, llm_result : LlmResults,
                  profile : ChecklistProfiles]
    /\ checklist = Unset

GenerateChecklist ==
    /\ pc = "init"
    /\ cl_in # Unset
    /\ checklist' = GenerateActionChecklist(cl_in.monthly_rec, cl_in.feat_rec,
                                            cl_in.llm_result, cl_in.profile, Unset)
    /\ pc' = "_generate_action_checklist"
    /\ UNCHANGED <<cl_in, complianceVars, qualityVars, corpusVars, pageVars, attributionVars, predicateVars>>

NextChecklist == GenerateChecklist

SpecChecklist == InitChecklist /\ [][NextChecklist]_vars

\* C2: the list returned by _generate_action_checklist never holds two items
\* with the same action text.
C2_NoDuplicateAction ==
    (pc = "_generate_action_checklist" /\ ~checklist.raised) =>
        \A i, j \in 1..Len(checklist.items) :
            checklist.items[i].action = checklist.items[j].action => i = j

\* a scenario with both keywords of one rule, and rules of every group firing
C2_Witness ==
    /\ pc = "_generate_action_checklist"
    /\ ~checklist.raised
    /\ Contains(DictGet(cl_in.llm_result, "llm_scenario", <<>>), K_experience)
    /\ Contains(DictGet(cl_in.llm_result, "llm_scenario", <<>>), K_qualification)
    /\ Len(checklist.items) >= 6

-----------------------------------------------------------------------------
(* The corpus scans as a state machine: a corpus and a query, then one scan *)

MaxCorpus == 22
MaxPattern == 2

\* a record of the feature table: one-hot sector and procedure indicators
CorpusRecord(id, sector, procedure, value, score, pw, qw) ==
    [rhr_id |-> id,
     buyer_name |-> "B1",
     stage1_probability |-> score,
     features |->
        [k \in {SectorKey(sector), ProcKey(procedure), "value_missing",
                "log_estimated_value", "price_weight", "quality_weight"} |->
            CASE k = SectorKey(sector)       -> 1
              [] k = ProcKey(procedure)      -> 1
              [] k = "value_missing"         -> IF value = None THEN 1 ELSE 0
              [] k = "log_estimated_value"   -> IF value = None THEN Num(0) ELSE LnOf(value.v)
              [] k = "price_weight"          -> pw
              [] k = "quality_weight"        -> qw]]

\* (sector, procedure, value, score, price weight, quality weight)
RecordTypes ==
    { <<"IT", "open", Num(300), 50, 100, 0>>,
      <<"IT", "open", None, 90, 60, 40>>,
      <<"IT", "open", Num(900), 10, 100, 1>>,
      <<"IT", "open", Num(99), 90, 0, 0>>,
      <<"IT", "neg-w-call", Num(100), 50, 40, 60>>,
      <<"health", "open", Num(901), 70, 100, 0>> }

\* the corpus of n records whose types repeat the pattern
CorpusOf(pattern, n) ==
    [i \in 1..n |->
        LET ty == pattern[((i - 1) % Len(pattern)) + 1]
        IN  CorpusRecord(i, ty[1], ty[2], ty[3], ty[4], ty[5], ty[6])]

Patterns == UNION { [1..k -> RecordTypes] : k \in 1..MaxPattern }

CorpusSizes == {0, 1, 2, 3, MaxCorpus - 1, MaxCorpus}

Corpora == { CorpusOf(pat, n) : pat \in Patterns, n \in CorpusSizes }

\* no dispute, every other record disputed, every record disputed
Ledgers(corpus) ==
    { {}, { i \in 1..Len(corpus) : i % 2 = 0 }, 1..Len(corpus) }

\* sector, procedure and value of the target; "" and None when not given;
\* exclude_rhr 0 is an id outside the corpus
Queries ==
    [sector : {"", "IT", "defense"}, procedure : {"", "open"}, contract_type : {"services"},
     value : {None, Num(0), Num(300)}, exclude_rhr : {0, 1, 2}]

InitCorpus ==
    /\ IdleQuality /\ IdleChecklist /\ IdlePage /\ IdleAttribution /\ IdlePredicate
    /\ pc = "init"
    /\ lang = "en" /\ row = Unset /\ buyer_profiles = EmptyDict
    /\ flags = <<>> /\ first_flags = <<>> /\ runs = 0
    /\ titles_data \in {EmptyDict, [k \in {1} |-> [title |-> W_SAP, buyer |-> "B2"]]}
    /\ features_dict \in Corpora
    /\ dispute_ids \in Ledgers(features_dict)
    /\ query \in Queries
    /\ comp_df = <<>>
    /\ benchmarks = EmptyDict

FindComparable ==
    /\ pc = "init"
    /\ query # Unset
    /\ comp_df' = FindComparableProcurements(features_dict, dispute_ids, titles_data,
                                             query.sector, query.procedure,
                                             query.contract_type, query.value,
                                             query.exclude_rhr)
    /\ pc' = "_find_comparable_procurements"
    /\ UNCHANGED <<features_dict, dispute_ids, query, benchmarks>>
    /\ UNCHANGED <<complianceVars, qualityVars, checklistVars, pageVars, attributionVars, predicateVars>>

ComputeBenchmarks ==
    /\ pc = "init"
    /\ query # Unset
    /\ benchmarks' = ComputeSectorBenchmarks(features_dict, dispute_ids, query.sector)
    /\ pc' = "_compute_sector_benchmarks"
    /\ UNCHANGED <<features_dict, dispute_ids, query, comp_df>>
    /\ UNCHANGED <<complianceVars, qualityVars, checklistVars, pageVars, attributionVars, predicateVars>>

NextCorpus == FindComparable \/ ComputeBenchmarks

SpecCorpus == InitCorpus /\ [][NextCorpus]_vars

\* the records the filters of the query keep, the excluded id aside
Matching ==
    ComparableRows(features_dict, dispute_ids, titles_data, query.sector, query.procedure,
                   query.value, 0)

\* C3: the result of _find_comparable_procurements never holds the excluded
\* record id and never has more than 20 records.
C3_NoTargetAtMostTwenty ==
    pc = "_find_comparable_procurements" =>
        /\ \A i \in 1..Len(comp_df) : comp_df[i].rhr_id # query.exclude_rhr
        /\ Len(comp_df) <= 20

\* more than 20 records pass the filters, the target among them
C3_Witness ==
    /\ pc = "_find_comparable_procurements"
    /\ \E i \in 1..Len(Matching) : Matching[i].rhr_id = query.exclude_rhr
    /\ Len(Matching) > 21
    /\ Len(comp_df) = 20

\* C10 as stated: for a sector without records the aggregator returns a
\* benchmark whose total is 0, whose dispute_rate is 0 and whose median_value is
\* None.
C10_ZeroTotalBenchmark ==
    (pc = "_compute_sector_benchmarks" /\ SectorRecords(features_dict, query.sector) = <<>>) =>
        /\ DOMAIN benchmarks = {"total", "dispute_rate", "median_value", "mean_value",
                                "price_only_rate", "avg_quality_weight"}
        /\ benchmarks["total"] = 0
        /\ benchmarks["dispute_rate"].num = 0
        /\ benchmarks["median_value"] = None

\* C10 amended: for a sector without records the aggregator returns the empty
\* mapping, which has no total, dispute_rate or median_value entry; a benchmark
\* that has entries has a total of at least 1.
C10_EmptyMapping ==
    pc = "_compute_sector_benchmarks" =>
        /\ SectorRecords(features_dict, query.sector) = <<>> => benchmarks = EmptyDict
        /\ benchmarks # EmptyDict => benchmarks["total"] >= 1

C10_Witness ==
    /\ pc = "_compute_sector_benchmarks"
    /\ Len(features_dict) > 0
    /\ query.sector = "defense"
    /\ SectorRecords(features_dict, query.sector) = <<>>
    /\ benchmarks = EmptyDict

-----------------------------------------------------------------------------
(* The deep dive page, app.py 2896-3796: one script run for one record id.  *)
(* The components run in page order; an exception that no handler catches   *)
(* ends the run, and what was rendered before it stays on the page.         *)

\* features_dict.get(selected_rhr): the record, or None (the empty mapping)
FeaturesDictGet(corpus, rhr_id) ==
    IF \E i \in 1..Len(corpus) : corpus[i].rhr_id = rhr_id
    THEN corpus[CHOOSE i \in 1..Len(corpus) : corpus[i].rhr_id = rhr_id]
    ELSE EmptyDict

\* rec["features"] is a JSON null: every feat.get(...) on it raises AttributeError
FeaturesNull(rec) == rec # EmptyDict /\ DictGet(rec, "features", EmptyDict) = None

\* line 1036: feat.get on the null features of the target record, or line 1093
ChecklistRaises(rec, llm_result) == FeaturesNull(rec) \/ ScenarioRaises(llm_result)

\* line 1172: feat.get on the null features of any corpus record
BenchmarksRaise(corpus) == \E i \in 1..Len(corpus) : FeaturesNull(corpus[i])

\* line 972, with a sector given: feat.get on the null features of a record
\* other than the target
ComparablesRaise(corpus, sec, exclude_rhr) ==
    sec # "" /\ \E i \in 1..Len(corpus) :
                      corpus[i].rhr_id # exclude_rhr /\ FeaturesNull(corpus[i])

PageTarget == CorpusRecord(1, "IT", "open", Num(300), 50, 60, 40)
PageOther  == CorpusRecord(2, "IT", "open", Num(600), 70, 100, 0)

NullFeatures(rec) == [rec EXCEPT !.features = None]

PageCorpora ==
    { <<>>, <<PageTarget>>, <<PageOther>>, <<PageTarget, PageOther>>,
      <<PageTarget, NullFeatures(PageOther)>>, <<NullFeatures(PageTarget), PageOther>> }

PageMonthlyRecs ==
    { EmptyDict,
      [procedure_type |-> "open", contract_type |-> "services", sector |-> "IT",
       estimated_value |-> Num(600000)],
      [procedure_type |-> "neg-w-call", contract_type |-> "works", sector |-> "",
       estimated_value |-> None] }

PageLlmResults ==
    { EmptyDict, [k \in {"llm_score"} |-> <<"5">>], [k \in {"llm_scenario"} |-> NullText],
      [k \in {"llm_scenario"} |-> <<>>], [k \in {"llm_scenario"} |-> T_Unclear] }

PageProfiles == { EmptyDict, [vako_disputes |-> 3, single_bidder_rate |-> 60] }

Components == {"Feature Attribution", "Quality Scoring Rubric", "Recommendation Synthesizer",
               "Sector Benchmark Aggregator", "Comparable Match Finder"}

InitPage ==
    /\ IdleCompliance /\ IdleQuality /\ IdleChecklist /\ IdleAttribution /\ IdlePredicate
    /\ pc = "init"
    /\ features_dict \in PageCorpora
    /\ dispute_ids \in {{}, {2}}
    /\ query = Unset /\ comp_df = <<>> /\ benchmarks = EmptyDict
    /\ page \in [selected_rhr : {1}, monthly_rec : PageMonthlyRecs,
                 llm_result : PageLlmResults, profile : PageProfiles,
                 model : BOOLEAN, integrity_flags : {<<>>, <<"high">>},
                 rendered : {{}}, failed : {"none"}]

PageFeatRec == FeaturesDictGet(features_dict, page.selected_rhr)
PageProcedure == DictGet(page.monthly_rec, "procedure_type", "")
PageContract == DictGet(page.monthly_rec, "contract_type", "")
PageSector == DictGet(page.monthly_rec, "sector", "")
PageValue == DictGet(page.monthly_rec, "estimated_value", None)

\* the uncaught exception of a component ends the script run
Abort(component) ==
    /\ page' = [page EXCEPT !.failed = component]
    /\ pc' = "aborted"

Render(component, next) ==
    /\ page' = [page EXCEPT !.rendered = @ \cup {component}]
    /\ pc' = next

\* lines 2896-2911
PageLookup ==
    /\ pc = "init" /\ page # Unset
    /\ pc' = IF PageFeatRec = EmptyDict /\ page.monthly_rec = EmptyDict
             THEN "st.stop" ELSE "feature_contrib"
    /\ UNCHANGED <<complianceVars, qualityVars, checklistVars, corpusVars, pageVars, attributionVars, predicateVars>>

\* lines 3090-3171
PageContributions ==
    /\ pc = "feature_contrib"
    /\ UNCHANGED <<attributionVars, predicateVars>>
    /\ IF PageFeatRec # EmptyDict /\ page.model
       THEN IF FeaturesNull(PageFeatRec) THEN Abort("Feature Attribution")
            ELSE Render("Feature Attribution", "quality")
       ELSE pc' = "quality" /\ UNCHANGED page
    /\ UNCHANGED <<complianceVars, qualityVars, checklistVars, corpusVars>>

\* lines 3206-3214
PageQuality ==
    /\ pc = "quality"
    /\ UNCHANGED <<attributionVars, predicateVars>>
    /\ IF FeaturesNull(PageFeatRec)
       THEN Abort("Quality Scoring Rubric") /\ UNCHANGED qualityVars
       ELSE /\ qa_in' = [features |-> DictGet(PageFeatRec, "features", EmptyDict),
                         procedure |-> PageProcedure, contract_type |-> PageContract,
                         sector |-> PageSector, buyer_profile |-> page.profile,
                         integrity_flags |-> page.integrity_flags]
            /\ qa' = ComputeQualityAssessment(qa_in'.features, PageProcedure,
                                              PageContract, PageSector,
                                              page.profile, page.integrity_flags)
            /\ Render("Quality Scoring Rubric", "checklist")
    /\ UNCHANGED <<complianceVars, checklistVars, corpusVars>>

\* lines 3375-3395
PageChecklist ==
    /\ pc = "checklist"
    /\ UNCHANGED <<attributionVars, predicateVars>>
    /\ cl_in' = [monthly_rec |-> page.monthly_rec, feat_rec |-> PageFeatRec,
                 llm_result |-> page.llm_result, profile |-> page.profile]
    /\ IF ChecklistRaises(PageFeatRec, page.llm_result)
       THEN Abort("Recommendation Synthesizer") /\ UNCHANGED checklist
       ELSE /\ checklist' = GenerateActionChecklist(page.monthly_rec, PageFeatRec,
                                                    page.llm_result, page.profile, Unset)
            /\ Render("Recommendation Synthesizer", "benchmarks")
    /\ UNCHANGED <<complianceVars, qualityVars, corpusVars>>

\* lines 3397-3424
PageBenchmarks ==
    /\ pc = "benchmarks"
    /\ UNCHANGED <<attributionVars, predicateVars>>
    /\ IF page.profile # EmptyDict /\ PageSector # ""
       THEN IF BenchmarksRaise(features_dict)
            THEN Abort("Sector Benchmark Aggregator") /\ UNCHANGED benchmarks
            ELSE /\ benchmarks' = ComputeSectorBenchmarks(features_dict, dispute_ids, PageSector)
                 /\ Render("Sector Benchmark Aggregator", "comparables")
       ELSE pc' = "comparables" /\ UNCHANGED <<page, benchmarks>>
    /\ UNCHANGED <<features_dict, dispute_ids, query, comp_df>>
    /\ UNCHANGED <<complianceVars, qualityVars, checklistVars>>

\* lines 3621-3635
PageComparables ==
    /\ pc = "comparables"
    /\ UNCHANGED <<attributionVars, predicateVars>>
    /\ IF PageSector # "" /\ PageProcedure # ""
       THEN IF ComparablesRaise(features_dict, PageSector, page.selected_rhr)
            THEN Abort("Comparable Match Finder") /\ UNCHANGED comp_df
            ELSE /\ comp_df' = FindComparableProcurements(features_dict, dispute_ids,
                                   titles_data, PageSector, PageProcedure, PageContract, PageValue,
                                   page.selected_rhr)
                 /\ Render("Comparable Match Finder", "pdf")
       ELSE pc' = "pdf" /\ UNCHANGED <<page, comp_df>>
    /\ UNCHANGED <<features_dict, dispute_ids, query, benchmarks>>
    /\ UNCHANGED <<complianceVars, qualityVars, checklistVars>>

\* lines 3723-3796: the scans run again on the same arguments, then
\* generate_report inside try/except
PagePdf ==
    /\ pc = "pdf"
    /\ pc' = "done"
    /\ UNCHANGED <<complianceVars, qualityVars, checklistVars, corpusVars, pageVars, attributionVars, predicateVars>>

NextPage ==
    \/ PageLookup \/ PageContributions \/ PageQuality \/ PageChecklist
    \/ PageBenchmarks \/ PageComparables \/ PagePdf

SpecPage == InitPage /\ [][NextPage]_vars

\* the components this request runs when none fails
Due ==
    {"Quality Scoring Rubric", "Recommendation Synthesizer"}
    \cup (IF PageFeatRec # EmptyDict /\ page.model THEN {"Feature Attribution"} ELSE {})
    \cup (IF page.profile # EmptyDict /\ PageSector # "" THEN {"Sector Benchmark Aggregator"} ELSE {})
    \cup (IF PageSector # "" /\ PageProcedure # "" THEN {"Comparable Match Finder"} ELSE {})

\* C11: when a component of the page run has failed, the result of every other
\* component the request runs is still produced.
C11_FailureIsolated ==
    (page # Unset /\ pc = "aborted") => Due \ {page.failed} \subseteq page.rendered

\* C12: when the feature table has no record for the requested id, the run
\* stops with "no data" and computes neither a quality assessment nor an action
\* list.
C12_NoDataWithoutFeatures ==
    (page # Unset /\ pc # "init" /\ PageFeatRec = EmptyDict) =>
        pc = "st.stop" /\ qa = Unset /\ checklist = Unset

-----------------------------------------------------------------------------
(* Missing optional inputs *)

\* a narrative result that is present and carries no scenario text: no
\* llm_scenario key, a null one, or the empty string
NoScenarioText(llm_result) ==
    /\ llm_result # EmptyDict
    /\ DictGet(llm_result, "llm_scenario", <<>>) \in {NullText, <<>>}

NarrativeTexts ==
    {"Review qualification requirements for proportionality",
     "Replace brand-specific requirements with functional specifications",
     "Clarify subjective evaluation criteria"}

BuyerTexts ==
    {"Consider market engagement before publication",
     "Review lessons from previous disputes"}

\* C13, for the Recommendation Synthesizer: with the buyer profile absent, or
\* the narrative result absent or present without scenario text, the call
\* returns a list, and that list has no item of the rule group whose input is
\* missing.
C13_ChecklistDegradesGracefully ==
    (/\ pc = "_generate_action_checklist"
     /\ cl_in # Unset
     /\ \/ cl_in.profile = EmptyDict
        \/ cl_in.llm_result = EmptyDict
        \/ NoScenarioText(cl_in.llm_result)) =>
        /\ ~checklist.raised
        /\ (cl_in.profile = EmptyDict =>
               \A i \in 1..Len(checklist.items) : checklist.items[i].action \notin BuyerTexts)
        /\ ((cl_in.llm_result = EmptyDict \/ NoScenarioText(cl_in.llm_result)) =>
               \A i \in 1..Len(checklist.items) : checklist.items[i].action \notin NarrativeTexts)

-----------------------------------------------------------------------------
(* The match condition of the Comparable Match Finder *)

\* the candidate's value, None when unknown
CandidateValue(rec) ==
    IF rec.features["value_missing"] = 1 THEN None
    ELSE Num(Exp(rec.features["log_estimated_value"]))

\* the three conditions of a match; a target value of None or 0 is no value given
SectorMatches(rec) == query.sector = "" \/ DictGet(rec.features, SectorKey(query.sector), 0) = 1
ProcedureMatches(rec) ==
    query.procedure = "" \/ DictGet(rec.features, ProcKey(query.procedure), 0) = 1
ValueMatches(rec) ==
    \/ query.value \in {None, Num(0)}
    \/ CandidateValue(rec) = None
    \/ /\ query.value.v <= 3 * CandidateValue(rec).v
       /\ CandidateValue(rec).v <= 3 * query.value.v

ReturnedIds == { comp_df[i].rhr_id : i \in 1..Len(comp_df) }

-----------------------------------------------------------------------------
(* The order of the Comparable Match Finder's result *)

\* the rows of every match of the query, in corpus order
Matched ==
    ComparableRows(features_dict, dispute_ids, titles_data, query.sector, query.procedure,
                   query.value, query.exclude_rhr)

\* r ranks strictly above q: disputed before non-disputed, then the higher score
RanksAbove(r, q) ==
    \/ r.disputed /\ ~q.disputed
    \/ r.disputed = q.disputed /\ r.score > q.score

\* C15: the result lists the matches with no row ranking strictly above an
\* earlier one (disputed first, then score descending); it holds min(20, number
\* of matches) of the matches, no omitted match ranks strictly above a returned
\* one, and it is the empty result when nothing matches.
C15_DisputedThenScore ==
    pc = "_find_comparable_procurements" =>
        LET matches  == Matched
            all      == { matches[k] : k \in 1..Len(matches) }
            returned == { comp_df[i] : i \in 1..Len(comp_df) }
            omitted  == all \ returned
        IN  /\ \A i, j \in 1..Len(comp_df) : i < j => ~RanksAbove(comp_df[j], comp_df[i])
            /\ Len(comp_df) = Min2(TopN, Len(matches))
            /\ returned \subseteq all
            /\ Cardinality(returned) = Len(comp_df)
            /\ \A m \in omitted : \A r \in returned : ~RanksAbove(m, r)
            /\ (matches = <<>> => comp_df = <<>>)

\* more than 20 matches, and a disputed row of lower score ahead of a
\* non-disputed one
C15_Witness ==
    /\ pc = "_find_comparable_procurements"
    /\ Len(comp_df) = TopN
    /\ comp_df[1].disputed /\ ~comp_df[TopN].disputed
    /\ comp_df[1].score < comp_df[TopN].score
    /\ Len(Matched) > TopN

-----------------------------------------------------------------------------
(* The order and independence of the compliance rules *)

RuleOrder ==
    << "non_competitive_high_value", "single_source_works_threshold",
       "price_only_high_services", "no_criteria", "brand_name_restriction",
       "low_competition_buyer", "price_only_disputed_buyer", "missing_buyer" >>

RuleIndex(id) == CHOOSE k \in 1..Len(RuleOrder) : RuleOrder[k] = id

\* the condition of each rule on the inputs of the run, the other rules aside
RuleCondition(id) ==
    LET pw  == OrZero(row.price_weight).v
        qw  == OrZero(row.quality_weight).v
        val == row.estimated_value
        big(n) == val \notin {None, NaN} /\ val.v > n
        active == RowProfile # EmptyDict /\ RowProfile.procurement_count >= 5
        t   == TitleOf(titles_data, row.rhr_id)
    IN  CASE id = "non_competitive_high_value" ->
                 row.procedure_type \in {"neg-wo-call", "oth-single"} /\ big(200000)
          [] id = "single_source_works_threshold" ->
                 /\ row.procedure_type \in {"neg-wo-call", "oth-single"}
                 /\ row.contract_type = "works" /\ big(5000000)
          [] id = "price_only_high_services" ->
                 IsPriceOnly(pw, qw) /\ big(500000) /\ row.contract_type = "services"
          [] id = "no_criteria" ->
                 pw = 0 /\ qw = 0 /\ row.procedure_type \in {"open", "restricted", "neg-w-call"}
          [] id = "brand_name_restriction" ->
                 t # <<>> /\ \E k \in 1..Len(BRAND_PATTERNS) : Search(BRAND_PATTERNS[k], t) # NoMatch
          [] id = "low_competition_buyer" ->
                 /\ active /\ RowProfile.single_bidder_rate >= 60
                 /\ RowProfile.procurement_count >= 10
          [] id = "price_only_disputed_buyer" ->
                 active /\ RowProfile.price_only_rate >= 95 /\ RowProfile.vako_disputes >= 2
          [] id = "missing_buyer" -> row.buyer_name = ""

\* C16: the findings of a record follow the fixed rule order with no rule id
\* twice, every rule is present exactly when its own condition holds whatever
\* the other rules do, there are at most 8 findings, and none when no rule's
\* condition holds.
C16_FixedOrderIndependentRules ==
    Ran =>
        /\ \A i \in 1..Len(flags) : \E k \in 1..Len(RuleOrder) : RuleOrder[k] = flags[i].rule_id
        /\ \A i, j \in 1..Len(flags) :
              i < j => RuleIndex(flags[i].rule_id) < RuleIndex(flags[j].rule_id)
        /\ \A k \in 1..Len(RuleOrder) : HasRule(flags, RuleOrder[k]) <=> RuleCondition(RuleOrder[k])
        /\ Len(flags) <= 8
        /\ ((\A k \in 1..Len(RuleOrder) : ~RuleCondition(RuleOrder[k])) => flags = <<>>)

\* a record on which six rules fire together, the first and the last included
C16_Witness ==
    /\ Ran
    /\ Len(flags) = 6
    /\ flags[1].rule_id = "non_competitive_high_value"
    /\ flags[2].rule_id = "single_source_works_threshold"
    /\ flags[3].rule_id = "brand_name_restriction"
    /\ flags[6].rule_id = "missing_buyer"

-----------------------------------------------------------------------------
(* The rules of the Recommendation Synthesizer *)

ChecklistRan == pc = "_generate_action_checklist" /\ cl_in # Unset /\ ~checklist.raised

HasAction(text) == \E i \in 1..Len(checklist.items) : checklist.items[i].action = text

\* the inputs of the call, read as the function reads them
InValue     == DictGet(cl_in.monthly_rec, "estimated_value", None)
InProcedure == DictGet(cl_in.monthly_rec, "procedure_type", "")
InContract  == DictGet(cl_in.monthly_rec, "contract_type", "")
InSector    == DictGet(cl_in.monthly_rec, "sector", "")
InPriceWeight   == DictGet(DictGet(cl_in.feat_rec, "features", EmptyDict), "price_weight", 0)
InQualityWeight == DictGet(DictGet(cl_in.feat_rec, "features", EmptyDict), "quality_weight", 0)
InScenario  == DictGet(cl_in.llm_result, "llm_scenario", <<>>)

ValueAbove(n) == InValue # None /\ InValue.v > n

PriceOnlyServicesFires ==
    IsPriceOnly(InPriceWeight, InQualityWeight) /\ InContract = "services" /\ ValueAbove(200000)

\* C17: the scoring methodology action is emitted exactly when the price-only
\* services rule does not fire and quality weight / (price weight + quality
\* weight) is greater than 0.5.
C17_QualityRatioAboveHalf ==
    ChecklistRan =>
        (HasAction("Ensure quality criteria have detailed scoring methodology")
            <=> /\ ~PriceOnlyServicesFires
                /\ InPriceWeight + InQualityWeight > 0
                /\ 2 * InQualityWeight > InPriceWeight + InQualityWeight)


HasItem(priority, text) ==
    \E i \in 1..Len(checklist.items) :
        checklist.items[i].priority = priority /\ checklist.items[i].action = text

HasKeyword(kws) ==
    cl_in.llm_result # EmptyDict /\ \E kw \in kws : Contains(InScenario, kw)

\* the action of each listed rule, with its priority and its condition
ListedRules ==
    { <<"HIGH", "Conduct pre-publication legal review of tender documents",
        ValueAbove(5000000)>>,
      <<"HIGH", "Document justification for negotiated procedure",
        InProcedure = "neg-w-call">>,
      <<"HIGH", "Verify exemption grounds for non-competitive procedure",
        InProcedure \in {"neg-wo-call", "oth-single"} /\ ValueAbove(200000)>>,
      <<"MEDIUM", "Review qualification requirements for proportionality",
        HasKeyword({K_qualification, K_experience})>>,
      <<"HIGH", "Replace brand-specific requirements with functional specifications",
        HasKeyword({K_brand, K_specific})>>,
      <<"MEDIUM", "Clarify subjective evaluation criteria",
        HasKeyword({K_subjective, K_vague, K_unclear})>>,
      <<"LOW", "Consider market engagement before publication",
        cl_in.profile # EmptyDict /\ cl_in.profile.single_bidder_rate > 30>>,
      <<"MEDIUM", "Review lessons from previous disputes",
        cl_in.profile # EmptyDict /\ cl_in.profile.vako_disputes >= 3>>,
      <<"LOW", "Check for unintentional vendor lock-in in technical specifications",
        InSector = "IT" /\ ValueAbove(1000000)>> }

CriteriaTexts ==
    {"Consider adding quality criteria to evaluation",
     "Ensure quality criteria have detailed scoring methodology"}

\* C18: each listed rule's action is in the list, with the rule's priority,
\* exactly when the rule's own condition holds, whatever the other rules do, and
\* the list holds no action other than those of the listed rules and of the two
\* evaluation criteria rules.
C18_RulesFireOnOwnCondition ==
    ChecklistRan =>
        /\ \A r \in ListedRules : HasItem(r[1], r[2]) <=> r[3]
        /\ \A r \in ListedRules : HasAction(r[2]) => HasItem(r[1], r[2])
        /\ \A i \in 1..Len(checklist.items) :
              checklist.items[i].action \in { r[2] : r \in ListedRules } \cup CriteriaTexts

\* rules of five groups fire in one call, both buyer rules among them
C18_Witness ==
    /\ ChecklistRan
    /\ HasAction("Conduct pre-publication legal review of tender documents")
    /\ HasAction("Verify exemption grounds for non-competitive procedure")
    /\ HasAction("Clarify subjective evaluation criteria")
    /\ HasAction("Consider market engagement before publication")
    /\ HasAction("Review lessons from previous disputes")
    /\ HasAction("Check for unintentional vendor lock-in in technical specifications")


\* the action texts in the order in which the function's rules append them
GenerationOrder ==
    << "Conduct pre-publication legal review of tender documents",
       "Document justification for negotiated procedure",
       "Verify exemption grounds for non-competitive procedure",
       "Consider adding quality criteria to evaluation",
       "Ensure quality criteria have detailed scoring methodology",
       "Review qualification requirements for proportionality",
       "Replace brand-specific requirements with functional specifications",
       "Clarify subjective evaluation criteria",
       "Consider market engagement before publication",
       "Review lessons from previous disputes",
       "Check for unintentional vendor lock-in in technical specifications" >>

RulePriority ==
    << "HIGH", "HIGH", "HIGH", "MEDIUM", "MEDIUM", "MEDIUM", "HIGH", "MEDIUM", "LOW",
       "MEDIUM", "LOW" >>

GenerationIndex(text) == CHOOSE k \in 1..Len(GenerationOrder) : GenerationOrder[k] = text

PriorityRank(p) == CASE p = "HIGH" -> 3 [] p = "MEDIUM" -> 2 [] OTHER -> 1

-----------------------------------------------------------------------------
(* The figures of the Sector Benchmark Aggregator *)

\* positions of the corpus records whose indicator for the queried sector is set
InSectorQuery ==
    { i \in 1..Len(features_dict) :
        DictGet(features_dict[i].features, SectorKey(query.sector), 0) = 1 }

RECURSIVE SumQualityWeights(_)
SumQualityWeights(S) ==
    IF S = {} THEN 0
    ELSE LET i == CHOOSE i \in S : TRUE
         IN  features_dict[i].features["quality_weight"] + SumQualityWeights(S \ {i})

\* C20: for a sector with at least one record, total counts the sector's
\* records, dispute_rate and price_only_rate are the counts of its disputed and
\* of its price-only records over total and lie in [0, 1], median_value and
\* mean_value are None exactly when no record of the sector has a known value,
\* and avg_quality_weight is the mean of the positive quality weights, 0 when
\* there is none.
C20_SectorFigures ==
    (pc = "_compute_sector_benchmarks" /\ InSectorQuery # {}) =>
        LET S         == InSectorQuery
            disputed  == { i \in S : features_dict[i].rhr_id \in dispute_ids }
            priceOnly == { i \in S : IsPriceOnly(features_dict[i].features["price_weight"],
                                                 features_dict[i].features["quality_weight"]) }
            known     == { i \in S : features_dict[i].features["value_missing"] = 0 }
            weighted  == { i \in S : features_dict[i].features["quality_weight"] > 0 }
        IN  /\ benchmarks # EmptyDict
            /\ benchmarks["total"] = Cardinality(S)
            /\ benchmarks["dispute_rate"] = Frac(Cardinality(disputed), Cardinality(S))
            /\ benchmarks["price_only_rate"] = Frac(Cardinality(priceOnly), Cardinality(S))
            /\ \A k \in {"dispute_rate", "price_only_rate"} :
                  0 <= benchmarks[k].num /\ benchmarks[k].num <= benchmarks[k].den
            /\ (benchmarks["median_value"] = None <=> known = {})
            /\ (benchmarks["mean_value"] = None <=> known = {})
            /\ benchmarks["avg_quality_weight"] =
                  IF weighted = {} THEN Frac(0, 1)
                  ELSE Frac(SumQualityWeights(weighted), Cardinality(weighted))

\* a sector with disputed and undisputed, price-only and weighted records, some
\* of known and some of unknown value
C20_Witness ==
    /\ pc = "_compute_sector_benchmarks"
    /\ benchmarks # EmptyDict
    /\ benchmarks["total"] >= 3
    /\ 0 < benchmarks["dispute_rate"].num
    /\ benchmarks["dispute_rate"].num < benchmarks["dispute_rate"].den
    /\ 0 < benchmarks["price_only_rate"].num
    /\ benchmarks["price_only_rate"].num < benchmarks["price_only_rate"].den
    /\ benchmarks["median_value"] # None
    /\ benchmarks["avg_quality_weight"].num > 0

-----------------------------------------------------------------------------
(* Feature Attribution, app.py 3093-3170.  The model data hold the feature   *)
(* names in model order, one coefficient per feature and the scaler's mean   *)
(* and scale per feature; scaler.transform(x) is (x - mean) / scale, kept as *)
(* a fraction.                                                                *)

\* scaler.transform, line 3103, for feature i of the model
Scaled(model, x, i) == Frac(x - model.mean[i], model.scale[i])

\* lines 3101-3110: one row per model feature, in model order; a feature the
\* record lacks is read as 0 by feat.get(fn, 0)
ContributionRows(model, feat) ==
    [i \in 1..Len(model.feature_names) |->
        LET x == DictGet(feat, model.feature_names[i], 0)
            z == Scaled(model, x, i)
        IN  [feature      |-> model.feature_names[i],
             contribution |-> Frac(model.coef[i] * z.num, z.den),
             raw_value    |-> x]]

\* comparison of fractions with positive denominators
FracLess(a, b) == a.num * b.den < b.num * a.den

FracAbs(a) == Frac(IF a.num < 0 THEN -a.num ELSE a.num, a.den)

\* the position a sort takes next among rows that `better` does not separate:
\* the earliest with tie = "first", the latest with tie = "last"
Pick(candidates, tie) ==
    IF tie = "first" THEN CHOOSE i \in candidates : \A j \in candidates : i <= j
    ELSE CHOOSE i \in candidates : \A j \in candidates : j <= i

Without(seq, i) == SubSeq(seq, 1, i - 1) \o SubSeq(seq, i + 1, Len(seq))

\* the rows by signed contribution, largest first
RECURSIVE SortSignedDescending(_, _)
SortSignedDescending(rows, tie) ==
    IF rows = <<>> THEN <<>>
    ELSE LET top == { i \in 1..Len(rows) :
                        \A j \in 1..Len(rows) :
                            ~FracLess(rows[i].contribution, rows[j].contribution) }
             i   == Pick(top, tie)
         IN  <<rows[i]>> \o SortSignedDescending(Without(rows, i), tie)

\* line 3111: sort_values("contribution", key=abs, ascending=False)
RECURSIVE SortAbsDescending(_, _)
SortAbsDescending(rows, tie) ==
    IF rows = <<>> THEN <<>>
    ELSE LET top == { i \in 1..Len(rows) :
                        \A j \in 1..Len(rows) :
                            ~FracLess(FracAbs(rows[i].contribution),
                                      FracAbs(rows[j].contribution)) }
             i   == Pick(top, tie)
         IN  <<rows[i]>> \o SortAbsDescending(Without(rows, i), tie)

\* line 3116: sort_values("contribution")
RECURSIVE SortAscending(_, _)
SortAscending(rows, tie) ==
    IF rows = <<>> THEN <<>>
    ELSE LET low == { i \in 1..Len(rows) :
                        \A j \in 1..Len(rows) :
                            ~FracLess(rows[j].contribution, rows[i].contribution) }
             i   == Pick(low, tie)
         IN  <<rows[i]>> \o SortAscending(Without(rows, i), tie)

TopContributions == 12

\* line 3111: .head(12)
Head12(rows) == SubSeq(rows, 1, Min2(TopContributions, Len(rows)))

\* lines 3099-3116 and 3166-3167: contrib_df, or None (the empty sequence of
\* rows is told apart by `available`) when the model data are incomplete.  The
\* block writes no diagnostic: `defaulted_logged` is the set of feature names it
\* reports as defaulted.
FeatureContributions(model, feat, tie) ==
    IF model = EmptyDict
    THEN [available |-> FALSE, raised |-> FALSE, rows |-> <<>>, defaulted_logged |-> {}]
    ELSE [available |-> TRUE, raised |-> FALSE,
          rows |-> SortAscending(Head12(SortAbsDescending(ContributionRows(model, feat), tie)),
                                 tie),
          defaulted_logged |-> {}]

-----------------------------------------------------------------------------
(* Feature Attribution as a state machine: model data and a feature vector,  *)
(* then the contribution table                                                *)

MaxFeatures == 14

FeatureCounts == {1, 2, 12, 13, MaxFeatures}

Cyclic(pattern, n) == [i \in 1..n |-> pattern[((i - 1) % Len(pattern)) + 1]]

CoefPatterns == UNION { [1..k -> {-2, 1, 3}] : k \in 1..2 }
ValuePatterns == UNION { [1..k -> {0, 1, 5}] : k \in 1..2 }
ScalePatterns == { <<1>>, <<1, 2>> }

\* which features the record lacks
Lacking(kind, n) ==
    CASE kind = "none"   -> {}
      [] kind = "second" -> {2}
      [] kind = "last"   -> {n}
      [] OTHER           -> 1..n

AttributionInputs ==
    { [model |-> [feature_names |-> [i \in 1..n |-> i], coef |-> Cyclic(cp, n),
                  mean |-> [i \in 1..n |-> mu], scale |-> Cyclic(sp, n)],
       feat  |-> [k \in (1..n) \ Lacking(kind, n) |-> Cyclic(vp, n)[k]]] :
      n \in FeatureCounts, cp \in CoefPatterns, mu \in {0, 1}, sp \in ScalePatterns,
      vp \in ValuePatterns, kind \in {"none", "second", "last", "all"} }
    \cup { [model |-> EmptyDict, feat |-> [k \in 1..2 |-> 1]] }

InitAttribution ==
    /\ IdleCompliance /\ IdleQuality /\ IdleChecklist /\ IdleCorpus /\ IdlePage /\ IdlePredicate
    /\ pc = "init"
    /\ attr_in \in AttributionInputs
    /\ contribs = Unset

\* the order pandas leaves equal keys in is not fixed by sort_values' default
\* kind: either order may come out
ComputeContributions ==
    /\ pc = "init"
    /\ attr_in # Unset
    /\ \E tie \in {"first", "last"} :
          contribs' = FeatureContributions(attr_in.model, attr_in.feat, tie)
    /\ pc' = "feature_contributions"
    /\ UNCHANGED <<attr_in, complianceVars, qualityVars, checklistVars, corpusVars, pageVars, predicateVars>>

NextAttribution == ComputeContributions

SpecAttribution == InitAttribution /\ [][NextAttribution]_vars

AttributionRan ==
    pc = "feature_contributions" /\ attr_in # Unset /\ contribs # Unset /\ contribs.available

\* the raw value of model feature i: the record's, 0 when the record lacks it
RawValue(i) ==
    IF attr_in.model.feature_names[i] \in DOMAIN attr_in.feat
    THEN attr_in.feat[attr_in.model.feature_names[i]] ELSE 0

\* coefficient x scaled value of model feature i, as a fraction
Contribution(i) ==
    Frac(attr_in.model.coef[i] * (RawValue(i) - attr_in.model.mean[i]), attr_in.model.scale[i])

FracEq(a, b) == a.num * b.den = b.num * a.den

\* C21: contrib_df has min(12, number of model features) rows of distinct
\* features; each row carries its feature's raw value (0 when the record lacks
\* it) and coefficient x scaled value; no feature left out has a larger
\* absolute contribution than one listed; the rows ascend by contribution.
C21_TopTwelveByMagnitude ==
    AttributionRan =>
        LET m      == attr_in.model
            n      == Len(m.feature_names)
            rows   == contribs.rows
            pos(r) == CHOOSE i \in 1..n : m.feature_names[i] = r.feature
            listed == { rows[k].feature : k \in 1..Len(rows) }
        IN  /\ Len(rows) = Min2(12, n)
            /\ Cardinality(listed) = Len(rows)
            /\ \A k \in 1..Len(rows) :
                  /\ \E i \in 1..n : m.feature_names[i] = rows[k].feature
                  /\ rows[k].raw_value = RawValue(pos(rows[k]))
                  /\ FracEq(rows[k].contribution, Contribution(pos(rows[k])))
            /\ \A i \in 1..n :
                  m.feature_names[i] \notin listed =>
                      \A k \in 1..Len(rows) :
                          ~FracLess(FracAbs(rows[k].contribution), FracAbs(Contribution(i)))
            /\ \A j, k \in 1..Len(rows) :
                  j < k => ~FracLess(rows[k].contribution, rows[j].contribution)

\* more than 12 model features, negative and positive contributions listed,
\* and a feature the record lacks among the listed ones
C21_Witness ==
    /\ AttributionRan
    /\ Len(attr_in.model.feature_names) > 12
    /\ Len(contribs.rows) = 12
    /\ contribs.rows[1].contribution.num < 0
    /\ contribs.rows[12].contribution.num > 0
    /\ \E k \in 1..12 : contribs.rows[k].feature \notin DOMAIN attr_in.feat

\* C27: when the record lacks a feature of the model, the attribution fails or
\* reports every defaulted feature.
C27_NoSilentDefault ==
    AttributionRan =>
        LET m       == attr_in.model
            lacking == { m.feature_names[i] : i \in 1..Len(m.feature_names) } \ DOMAIN attr_in.feat
        IN  lacking # {} => contribs.raised \/ lacking \subseteq contribs.defaulted_logged

-----------------------------------------------------------------------------
(* The five dimensions of the quality rubric, each against its formula *)

QualityRan == pc = "compute_quality_assessment" /\ qa_in # Unset /\ qa # Unset

Score(name) == qa.dimensions[name].score

Clamp020(x) == IF x < 0 THEN 0 ELSE IF x > 20 THEN 20 ELSE x

InPw == qa_in.features["price_weight"]
InQw == qa_in.features["quality_weight"]
InTenders == qa_in.features["tenders_received"]

\* (quality = 0 and price > 0) or (sum > 0 and quality / sum < 0.01)
InPriceOnly == (InQw = 0 /\ InPw > 0) \/ (InPw + InQw > 0 /\ InQw * 100 < InPw + InQw)

\* C22: Criteria Quality is clamp[0,20] of 10, -6 price-only on services, -2
\* price-only otherwise, else +5 at quality ratio >= 0.3, else +2 at ratio
\* >= 0.1, and a further -4 when both weights are zero; with both weights zero
\* the score is at most 6.
C22_CriteriaQuality ==
    QualityRan =>
        LET total == InPw + InQw
            adj   == IF InPriceOnly /\ qa_in.contract_type = "services" THEN -6
                     ELSE IF InPriceOnly THEN -2
                     ELSE IF total > 0 /\ InQw * 10 >= 3 * total THEN 5
                     ELSE IF total > 0 /\ InQw * 10 >= total THEN 2
                     ELSE 0
            zero  == IF InPw = 0 /\ InQw = 0 THEN -4 ELSE 0
        IN  /\ Score("Criteria Quality") = Clamp020(10 + adj + zero)
            /\ (InPw = 0 /\ InQw = 0) => Score("Criteria Quality") <= 6

\* both weights zero on a services contract: 10 - 4
C22_Witness ==
    /\ QualityRan
    /\ InPw = 0 /\ InQw = 0
    /\ qa_in.contract_type = "services"
    /\ Score("Criteria Quality") = 6

\* the deadline is known: not flagged missing, and a length is recorded
DeadlineKnown ==
    /\ qa_in.features["deadline_missing"] = 0
    /\ qa_in.features["log_deadline_days"].t = "log10"

InDays == qa_in.features["log_deadline_days"].v

\* C23: Transparency is clamp[0,20] of 12, +3 value published else -4, plus
\* for a known deadline of d > 0 days +3 if d >= 30, +1 if 15 <= d < 30, -3 if
\* d < 15; the deadline adjustment is 0 only when the deadline is unknown.
C23_Transparency ==
    QualityRan =>
        LET val == IF qa_in.features["value_missing"] = 0 THEN 3 ELSE -4
            dl  == IF ~DeadlineKnown THEN 0
                   ELSE IF InDays >= 30 THEN 3
                   ELSE IF InDays >= 15 THEN 1
                   ELSE -3
        IN  Score("Transparency") = Clamp020(12 + val + dl)

Count(seq, S) == Cardinality({ i \in 1..Len(seq) : seq[i] \in S })

IntegrityPenalty ==
    6 * Count(qa_in.integrity_flags, {"high", "HIGH"})
    + 3 * Count(qa_in.integrity_flags, {"medium", "MEDIUM"})
    + (IF qa_in.buyer_profile # EmptyDict /\ qa_in.buyer_profile["vako_disputes"] >= 3
       THEN 3 ELSE 0)
    + (IF qa_in.buyer_profile # EmptyDict /\ qa_in.buyer_profile["single_bidder_rate"] > 50
       THEN 2 ELSE 0)

\* C24: Integrity & Governance is clamp[0,20] of 16 - 6 per high flag - 3 per
\* medium flag - 3 if the buyer has 3 or more disputes - 2 if the buyer's
\* single-bidder rate exceeds 0.5; low flags and an absent profile cost
\* nothing; the score is 0 when the penalties exceed 16.
C24_Integrity ==
    QualityRan =>
        /\ Score("Integrity & Governance") = Clamp020(16 - IntegrityPenalty)
        /\ IntegrityPenalty > 16 => Score("Integrity & Governance") = 0

\* two high flags and both buyer penalties: 17 > 16
C24_Witness ==
    /\ QualityRan
    /\ IntegrityPenalty > 16
    /\ qa_in.buyer_profile # EmptyDict
    /\ Score("Integrity & Governance") = 0

\* C25: Strategic Value is min(20, 8 + 4 green + 4 social + 5 innovation) with
\* at least one flag present and 5 with none; all three give exactly 20.
C25_Strategic ==
    QualityRan =>
        LET g   == qa_in.features["has_green"]
            so  == qa_in.features["has_social"]
            inn == qa_in.features["has_innovation"]
        IN  /\ g + so + inn > 0 => Score("Strategic Value") = Min2(20, 8 + 4 * g + 4 * so + 5 * inn)
            /\ g + so + inn = 0 => Score("Strategic Value") = 5
            /\ g + so + inn = 3 => Score("Strategic Value") = 20

C25_Witness ==
    /\ QualityRan
    /\ qa_in.features["has_green"] = 1
    /\ qa_in.features["has_social"] = 1
    /\ qa_in.features["has_innovation"] = 1
    /\ StrategicValue(qa_in.features).raw = 21
    /\ Score("Strategic Value") = 20

\* C26: Competition & Access is clamp[0,20] of 10 plus the procedure
\* adjustment (+5 open, +3 restricted, -2 neg-w-call, -8 neg-wo-call or
\* oth-single, 0 otherwise) plus the tender adjustment (+5 at 5 or more, +3 at
\* 3 or 4, -5 at exactly 1, 0 at 0, 2 or -1); a non-competitive procedure with
\* one tender scores 0.
C26_Competition ==
    QualityRan =>
        LET proc == CASE qa_in.procedure = "open"                          -> 5
                      [] qa_in.procedure = "restricted"                    -> 3
                      [] qa_in.procedure = "neg-w-call"                    -> -2
                      [] qa_in.procedure \in {"neg-wo-call", "oth-single"} -> -8
                      [] OTHER                                             -> 0
            tend == IF InTenders >= 5 THEN 5
                    ELSE IF InTenders \in {3, 4} THEN 3
                    ELSE IF InTenders = 1 THEN -5
                    ELSE 0
        IN  /\ Score("Competition & Access") = Clamp020(10 + proc + tend)
            /\ InTenders \in {0, 2, -1} => Score("Competition & Access") = 10 + proc
            /\ (qa_in.procedure \in {"neg-wo-call", "oth-single"} /\ InTenders = 1)
                  => Score("Competition & Access") = 0

C26_Witness ==
    /\ QualityRan
    /\ qa_in.procedure = "neg-wo-call"
    /\ InTenders = 1
    /\ Score("Competition & Access") = 0

\* C28: with non-negative weights the overall score lies in 14..89:
\* Competition in 0..20, Criteria Quality in {4, 6, 8, 10, 12, 15}, Strategic
\* Value in 5..20, Transparency in 5..18, Integrity in 0..16.
C28_OverallRange ==
    (QualityRan /\ InPw >= 0 /\ InQw >= 0) =>
        /\ Score("Competition & Access") \in 0..20
        /\ Score("Criteria Quality") \in {4, 6, 8, 10, 12, 15}
        /\ Score("Strategic Value") \in 5..20
        /\ Score("Transparency") \in 5..18
        /\ Score("Integrity & Governance") \in 0..16
        /\ qa.overall_score >= 14
        /\ qa.overall_score <= 89

\* the lower bound is attained
C28_Witness ==
    /\ QualityRan
    /\ InPw >= 0 /\ InQw >= 0
    /\ qa.overall_score = 14

\* the upper bound is attained
C28_WitnessMax ==
    /\ QualityRan
    /\ InPw >= 0 /\ InQw >= 0
    /\ qa.overall_score = 89

-----------------------------------------------------------------------------
(* Rules of the compliance engine that exclude one another *)

\* C29: no record gets both no_criteria and price_only_high_services, and no
\* record gets more than 7 findings.
C29_CriteriaRulesExclusive ==
    Ran =>
        /\ ~(HasRule(flags, "no_criteria") /\ HasRule(flags, "price_only_high_services"))
        /\ HasRule(flags, "price_only_high_services")
              => OrZero(row.price_weight).v + OrZero(row.quality_weight).v > 0
        /\ HasRule(flags, "no_criteria")
              => OrZero(row.price_weight).v = 0 /\ OrZero(row.quality_weight).v = 0
        /\ Len(flags) <= 7

\* price_only_high_services on a competitive procedure: only the weights keep
\* no_criteria away
C29_Witness ==
    /\ Ran
    /\ HasRule(flags, "price_only_high_services")
    /\ row.procedure_type \in {"open", "restricted", "neg-w-call"}
    /\ ~HasRule(flags, "no_criteria")

-----------------------------------------------------------------------------
(* The price-only test at each place it is written, with python's           *)
(* evaluation order and the division as it would fail                        *)

\* the outcome of evaluating a boolean expression
Val(b) == [done |-> TRUE, raises |-> FALSE, value |-> b]

\* qw / total_w < 0.01; ZeroDivisionError when total_w is 0
RatioBelowHundredth(qw, total_w) ==
    [done   |-> TRUE,
     raises |-> total_w = 0,
     value  |-> total_w # 0 /\ (IF total_w > 0 THEN qw * 100 < total_w ELSE qw * 100 > total_w)]

\* a and b, a or b: b is evaluated only when a does not decide
PyAnd(a, b) == IF a.raises \/ ~a.value THEN a ELSE b
PyOr(a, b) == IF a.raises \/ a.value THEN a ELSE b

\* app.py 713-714 and 739-740, detect_clear_errors
CompliancePriceOnly(r) ==
    LET pw      == OrZero(r.price_weight).v
        qw      == OrZero(r.quality_weight).v
        total_w == pw + qw
    IN  PyOr(PyAnd(Val(qw = 0), Val(pw > 0)),
             PyAnd(Val(total_w > 0), RatioBelowHundredth(qw, total_w)))

\* app.py 1035-1037 and 1069-1070, _generate_action_checklist
ChecklistPriceOnly(feat_rec) ==
    LET feat    == IF feat_rec # EmptyDict THEN DictGet(feat_rec, "features", EmptyDict)
                   ELSE EmptyDict
        pw      == DictGet(feat, "price_weight", 0)
        qw      == DictGet(feat, "quality_weight", 0)
        total_w == pw + qw
    IN  PyOr(PyAnd(Val(qw = 0), Val(pw > 0)),
             PyAnd(Val(total_w > 0), RatioBelowHundredth(qw, total_w)))

\* the benchmark's test with the division unguarded
BenchmarkPriceOnlyUnguarded(rec) ==
    LET feat == DictGet(rec, "features", EmptyDict)
        pw   == DictGet(feat, "price_weight", 0)
        qw   == DictGet(feat, "quality_weight", 0)
    IN  RatioBelowHundredth(qw, pw + qw)

\* app.py 1178-1182, _compute_sector_benchmarks
BenchmarkPriceOnly(rec) ==
    LET feat    == DictGet(rec, "features", EmptyDict)
        pw      == DictGet(feat, "price_weight", 0)
        qw      == DictGet(feat, "quality_weight", 0)
        total_w == pw + qw
    IN  PyAnd(Val(total_w > 0), RatioBelowHundredth(qw, total_w))

\* pdf_report.py 756-758 and 802, compute_quality_assessment
RubricPriceOnly(features) ==
    LET pw      == DictGet(features, "price_weight", 0)
        qw      == DictGet(features, "quality_weight", 0)
        total_w == pw + qw
    IN  PyOr(PyAnd(Val(qw = 0), Val(pw > 0)),
             PyAnd(Val(total_w > 0), RatioBelowHundredth(qw, total_w)))

\* pdf_report.py 623-625 and 657, _build_compliance_review
ReviewPriceOnly(features) ==
    LET pw      == DictGet(features, "price_weight", 0)
        qw      == DictGet(features, "quality_weight", 0)
        total_w == pw + qw
    IN  PyOr(PyAnd(Val(qw = 0), Val(pw > 0)),
             PyAnd(Val(total_w > 0), RatioBelowHundredth(qw, total_w)))

Sites == {"detect_clear_errors", "_generate_action_checklist", "_compute_sector_benchmarks",
          "compute_quality_assessment", "_build_compliance_review"}

Pending == [done |-> FALSE, raises |-> FALSE, value |-> FALSE]

\* non-negative weights: zero, ratios on each side of 0.01, one weight absent
WeightValues == {0, 1, 2, 98, 99, 100, 101, 1000}

\* the pair as each caller holds it
WeightsRow == [price_weight |-> Num(weights[1]), quality_weight |-> Num(weights[2])]
WeightsFeatures == [price_weight |-> weights[1], quality_weight |-> weights[2]]
WeightsRecord == [features |-> WeightsFeatures]

InitPriceOnly ==
    /\ IdleCompliance /\ IdleQuality /\ IdleChecklist /\ IdleCorpus /\ IdlePage
    /\ IdleAttribution
    /\ pc = "init"
    /\ weights \in WeightValues \X WeightValues
    /\ price_only = [s \in Sites |-> Pending]

Evaluate(site, outcome) ==
    /\ weights # Unset
    /\ ~price_only[site].done
    /\ price_only' = [price_only EXCEPT ![site] = outcome]
    /\ pc' = site
    /\ UNCHANGED <<weights, complianceVars, qualityVars, checklistVars, corpusVars, pageVars,
                   attributionVars>>

EvaluateCompliance == Evaluate("detect_clear_errors", CompliancePriceOnly(WeightsRow))
EvaluateChecklist == Evaluate("_generate_action_checklist", ChecklistPriceOnly(WeightsRecord))
EvaluateBenchmark == Evaluate("_compute_sector_benchmarks", BenchmarkPriceOnly(WeightsRecord))
EvaluateRubric == Evaluate("compute_quality_assessment", RubricPriceOnly(WeightsFeatures))
EvaluateReview == Evaluate("_build_compliance_review", ReviewPriceOnly(WeightsFeatures))

NextPriceOnly ==
    \/ EvaluateCompliance
    \/ EvaluateChecklist
    \/ EvaluateBenchmark
    \/ EvaluateRubric
    \/ EvaluateReview

SpecPriceOnly == InitPriceOnly /\ [][NextPriceOnly]_vars

\* C30: on non-negative weights every price-only test evaluates, without a
\* division by zero, to (quality = 0 and price > 0) or (price + quality > 0
\* and quality / (price + quality) < 0.01); so any two of them agree.
C30_PriceOnlyAgree ==
    (weights # Unset /\ price_only # Unset) =>
        LET pw == weights[1]
            qw == weights[2]
        IN  \A s \in Sites :
                price_only[s].done =>
                    /\ ~price_only[s].raises
                    /\ price_only[s].value
                          <=> ((qw = 0 /\ pw > 0) \/ (pw + qw > 0 /\ qw * 100 < pw + qw))
                    /\ \A u \in Sites :
                          price_only[u].done => price_only[u].value = price_only[s].value

\* all five tests evaluated on weights 0 and 0
C30_Witness ==
    /\ weights = <<0, 0>>
    /\ price_only # Unset
    /\ \A s \in Sites : price_only[s].done /\ ~price_only[s].value

====
